---- MODULE Spec2Model ----
(***************************************************************************)
(* Order generation of BigWorldSetup Enhanced Edition:                     *)
(* core/OrderGenerator.py (OrderGenerator.generate and its helpers) over   *)
(* a rule manager holding dependency rules and order rules.                *)
(*                                                                         *)
(* A ComponentReference is a record [mod_id, comp_key]; the two fields are *)
(* strings in the program and are modelled by their rank in string order,  *)
(* so that the sort key (r.mod_id, r.comp_key) is compared as the program  *)
(* compares it: first field first, second field on a tie.                  *)
(*                                                                         *)
(* The module holds six specifications over one set of variables:          *)
(*   Spec       core/OrderGenerator.py, one generate call;                 *)
(*   PauseSpec  core/models/PauseEntry.py, the process-wide counter and    *)
(*              the string form of a pause entry;                          *)
(*   ConstructSpec  PauseEntry.__init__ run by several threads, one        *)
(*              read or write of the class counter per step;               *)
(*   SortSpec   OrderGenerator._topological_sort alone, over every graph;  *)
(*   GameSpec   core/GameModels.py, the operations of InstallStep,         *)
(*              GameSequence and GameDefinition on one input each;         *)
(*   OrderFileSpec  core/OrderImportExportManager.py, the import, export   *)
(*              and statistics operations over a file of the file system.  *)
(* The text strings of the last two are sequences of one-character         *)
(* strings, so that splitting and prefix tests are computed.               *)
(***************************************************************************)
EXTENDS Integers, Sequences, FiniteSets, TLC

\* ------------------------------------------------------------------ bounds
NumRefs == 3        \* component references that rules and selections draw on
MaxRules == 2       \* rules held by the rule manager (both kinds together)
MaxRuleRefs == 4    \* source and target entries of all the rules together
MaxBaseLen == 2     \* entries of a manual base order
MaxPauses == 11     \* PauseEntry constructions between two counter resets
MaxDescLen == 2     \* characters of a pause description
MaxSequences == 2   \* sequences of an order file or an order mapping
MaxTokens == 2      \* tokens of one sequence
NumThreads == 3     \* threads that construct a PauseEntry each
MaxSteps == 3       \* install steps of the order of a game sequence
MaxMods == 2        \* entries of an allowed_mods or blocked_mods list
MaxGameSequences == 3  \* sequences of a game definition

\* ---------------------------------------------------------- value universe
\* The i-th reference: two components per mod, so that both fields of the
\* sort key decide some comparison.
ComponentReference(i) == [mod_id |-> (i + 1) \div 2, comp_key |-> 2 - (i % 2)]

Refs == {ComponentReference(i) : i \in 1..NumRefs}

\* A pause token of an order list ("pause:1"): an entry that is never
\* selected and is named by no rule.
PauseRef == [mod_id |-> 0, comp_key |-> 1]

Entries == Refs \cup {PauseRef}

\* Sequences over S of length at most n.
SeqUpTo(S, n) == UNION {[1..k -> S] : k \in 0..n}

\* All orders in which a set can be iterated.
Permutations_(S) == {p \in [1..Cardinality(S) -> S] : \A x \in S : \E i \in DOMAIN p : p[i] = x}

DependencyRule(sources, targets, implicit_order) ==
    [cls |-> "DependencyRule", sources |-> sources, targets |-> targets,
     implicit_order |-> implicit_order, order_direction |-> "NONE"]

OrderRule(sources, targets, order_direction) ==
    [cls |-> "OrderRule", sources |-> sources, targets |-> targets,
     implicit_order |-> FALSE, order_direction |-> order_direction]

RuleShapes ==
    {st \in (SUBSET Refs) \X (SUBSET Refs) :
        /\ st[1] # {} /\ st[2] # {}
        /\ Cardinality(st[1]) + Cardinality(st[2]) <= MaxRuleRefs}

AllDependencyRules ==
    {DependencyRule(st[1], st[2], io) : st \in RuleShapes, io \in BOOLEAN}

AllOrderRules ==
    {OrderRule(st[1], st[2], d) : st \in RuleShapes, d \in {"BEFORE", "AFTER"}}

VARIABLES
    dependency_rules,     \* rule manager: the list get_dependency_rules() returns
    order_rules,          \* rule manager: the list get_order_rules() returns
    pc,                   \* "idle" | "returned" | "raised"
    selected_components,  \* argument of the last generate call
    base_order,           \* argument of the last call (<<>> stands for None and [])
    components_to_order,  \* working node set of the last call
    graph,                \* graph built by the last call
    in_degree,            \* in-degree map built by the last call
    ideal_order,          \* result of _topological_sort in the last call
    resolved,             \* entries of ideal_order emitted before the cycle fallback
    warned,               \* the cycle warning was logged
    insertions,           \* the insertions _merge_orders made, in order
    result,               \* list returned by the last call
    _counter,             \* PauseEntry._counter, the class attribute
    created_ids,          \* pause_id of the entries constructed since the last reset
    last_entry,           \* <<p>> for the PauseEntry p constructed last, <<>> at start
    str_call,             \* <<[self, result]>> of the last str(p), <<>> at start
    parse_call,           \* <<[component_id, result]>> of the last PauseEntry.parse
    threads,              \* per thread: where it is in PauseEntry.__init__, and its locals
    path_state,           \* what file_path names in the file system
    order_mapping,        \* the order the application holds: sequence index -> references
    io_call,              \* the last import, export or statistics call, with the file it met
    io_outcome,           \* how it ended: "returned" or the class of the exception raised
    io_result,            \* the value it returned
    game_input,           \* the GameModels object or configuration an operation applies to
    game_call,            \* the GameModels operation applied to it, "none" at start
    game_result           \* what the operation returned or raised

generator_vars == <<dependency_rules, order_rules, pc, selected_components, base_order,
                    components_to_order, graph, in_degree, ideal_order, resolved,
                    warned, insertions, result>>

pause_vars == <<_counter, created_ids, last_entry, str_call, parse_call, threads>>

io_vars == <<path_state, order_mapping, io_call, io_outcome, io_result>>

game_vars == <<game_input, game_call, game_result>>

vars == <<dependency_rules, order_rules, pc, selected_components, base_order,
          components_to_order, graph, in_degree, ideal_order, resolved, warned,
          insertions, result, _counter, created_ids, last_entry, str_call,
          parse_call, threads, path_state, order_mapping, io_call, io_outcome, io_result,
          game_input, game_call, game_result>>

\* ------------------------------------------------------------ list helpers
\* The list of the members of set S, in iteration order it.
SetToList(S, it) == SelectSeq(it, LAMBDA r : r \in S)

Range(s) == {s[i] : i \in DOMAIN s}

\* key=lambda r: (r.mod_id, r.comp_key), compared as Python compares tuples.
KeyLess(a, b) ==
    \/ a.mod_id < b.mod_id
    \/ a.mod_id = b.mod_id /\ a.comp_key < b.comp_key

\* sorted(s, key=...): stable, ascending.
RECURSIVE sorted(_)
sorted(s) ==
    IF s = <<>> THEN <<>>
    ELSE LET x == s[Len(s)]
             front == sorted(SubSeq(s, 1, Len(s) - 1))
             k == Cardinality({i \in DOMAIN front : ~KeyLess(x, front[i])})
         IN SubSeq(front, 1, k) \o <<x>> \o SubSeq(front, k + 1, Len(front))

\* list.insert(index, x), index 0-based.
ListInsert(s, index, x) ==
    SubSeq(s, 1, index) \o <<x>> \o SubSeq(s, index + 1, Len(s))

\* ------------------------------------------------------------ rule manager
\* self._rule_manager of the generator under check.
rule_manager == [dependency_rules |-> dependency_rules, order_rules |-> order_rules]

get_dependency_rules(rm) == rm.dependency_rules

get_order_rules(rm) == rm.order_rules

\* Rules in which the reference appears as a source or as a target.
get_rules_for_component(rm, reference) ==
    SelectSeq(rm.dependency_rules \o rm.order_rules,
              LAMBDA rule : reference \in rule.sources \cup rule.targets)

\* ----------------------------------------------- _get_components_with_rules
\* The two "continue" tests of the inner loop: the rule affects ordering.
AffectsOrdering(rule) ==
    /\ ~(rule.cls = "DependencyRule" /\ ~rule.implicit_order)
    /\ rule.cls \in {"DependencyRule", "OrderRule"}

\* Faulty variant: a component counts only through an order-relevant rule whose
\* other endpoint is selected.
_get_components_with_rules_OrderRelevant(rm, selected_refs) ==
    {reference \in selected_refs :
        \E i \in DOMAIN get_rules_for_component(rm, reference) :
            LET rule == get_rules_for_component(rm, reference)[i]
            IN  /\ AffectsOrdering(rule)
                /\ \/ reference \in rule.sources /\ rule.targets \cap selected_refs # {}
                   \/ reference \in rule.targets /\ rule.sources \cap selected_refs # {}}

\* Faulty variant: every selected component is ordered.
_get_components_with_rules_AllSelected(rm, selected_refs) == selected_refs

_get_components_with_rules(rm, selected_refs) ==
    LET with_rules ==
            {reference \in selected_refs : get_rules_for_component(rm, reference) # <<>>}
        targets_of(reference) ==
            UNION {rule.targets \cap selected_refs :
                      rule \in {r \in Range(get_rules_for_component(rm, reference)) :
                                   AffectsOrdering(r)}}
    IN  with_rules \cup UNION {targets_of(reference) : reference \in with_rules}

\* -------------------------------------------------- _build_dependency_graph
\* Faulty variant: an edge already in the graph is counted again.
add_edge_NoDedup(st, components, before, after) ==
    IF st.raised THEN st
    ELSE IF before = after THEN st
    ELSE IF before \notin components \/ after \notin components THEN st
    ELSE IF after \notin DOMAIN st.in_degree
         THEN [st EXCEPT !.raised = TRUE]
         ELSE [st EXCEPT !.graph[before] = @ \cup {after},
                         !.in_degree[after] = @ + 1]

\* add_edge(before, after) on the pair st = (graph, in_degree); st.raised
\* records a KeyError of in_degree[after].
add_edge(st, components, before, after) ==
    IF st.raised THEN st
    ELSE IF before = after THEN st
    ELSE IF before \notin components \/ after \notin components THEN st
    ELSE IF after \notin st.graph[before]
         THEN IF after \notin DOMAIN st.in_degree
              THEN [st EXCEPT !.raised = TRUE]
              ELSE [st EXCEPT !.graph[before] = @ \cup {after},
                              !.in_degree[after] = @ + 1]
         ELSE st

\* for a in outer: for b in inner: the pairs (a, b) in loop order.
NestedPairs(outer, inner) ==
    [k \in 1..(Len(outer) * Len(inner)) |->
        <<outer[((k - 1) \div Len(inner)) + 1], inner[((k - 1) % Len(inner)) + 1]>>]

\* Faulty variant: the edge of a dependency drawn from the dependent to the dependency.
DependencyRuleCalls_SourceFirst(rule, components, it) ==
    IF ~rule.implicit_order THEN <<>>
    ELSE LET sources == SetToList(components \cap rule.sources, it)
             targets == SetToList(components \cap rule.targets, it)
         IN  IF sources = <<>> THEN <<>>
             ELSE IF targets = <<>> THEN <<>>
             ELSE NestedPairs(sources, targets)

\* The add_edge calls one dependency rule makes, in order.
DependencyRuleCalls(rule, components, it) ==
    IF ~rule.implicit_order THEN <<>>
    ELSE LET sources == SetToList(components \cap rule.sources, it)
             targets == SetToList(components \cap rule.targets, it)
         IN  IF sources = <<>> THEN <<>>
             ELSE IF targets = <<>> THEN <<>>
             ELSE NestedPairs(targets, sources)

\* Faulty variant: the direction of the rule is not looked at.
OrderRuleCalls_IgnoresDirection(rule, components, it) ==
    LET sources == SetToList(components \cap rule.sources, it)
        targets == SetToList(components \cap rule.targets, it)
    IN  IF sources = <<>> THEN <<>>
        ELSE IF targets = <<>> THEN <<>>
        ELSE NestedPairs(sources, targets)

\* The add_edge calls one order rule makes, in order.
OrderRuleCalls(rule, components, it) ==
    LET sources == SetToList(components \cap rule.sources, it)
        targets == SetToList(components \cap rule.targets, it)
        pairs == NestedPairs(sources, targets)
    IN  IF sources = <<>> THEN <<>>
        ELSE IF targets = <<>> THEN <<>>
        ELSE [k \in DOMAIN pairs |->
                IF rule.order_direction = "BEFORE"
                THEN <<pairs[k][1], pairs[k][2]>>
                ELSE <<pairs[k][2], pairs[k][1]>>]

\* for rule in self._rule_manager.get_dependency_rules(): ...
RECURSIVE AllDependencyCalls(_, _, _)
AllDependencyCalls(rules, components, it) ==
    IF rules = <<>> THEN <<>>
    ELSE DependencyRuleCalls(Head(rules), components, it)
         \o AllDependencyCalls(Tail(rules), components, it)

\* for rule in self._rule_manager.get_order_rules(): ...
RECURSIVE AllOrderCalls(_, _, _)
AllOrderCalls(rules, components, it) ==
    IF rules = <<>> THEN <<>>
    ELSE OrderRuleCalls(Head(rules), components, it)
         \o AllOrderCalls(Tail(rules), components, it)

RECURSIVE ApplyCalls(_, _, _)
ApplyCalls(st, calls, components) ==
    IF calls = <<>> THEN st
    ELSE ApplyCalls(add_edge(st, components, Head(calls)[1], Head(calls)[2]),
                    Tail(calls), components)

\* graph is a defaultdict(set): every key reads as the empty set at first.
_build_dependency_graph(rm, components, it) ==
    LET init == [graph |-> [ref \in Refs |-> {}],
                 in_degree |-> [ref \in components |-> 0],
                 raised |-> FALSE]
        calls == AllDependencyCalls(get_dependency_rules(rm), components, it)
                 \o AllOrderCalls(get_order_rules(rm), components, it)
    IN  ApplyCalls(init, calls, components)

\* --------------------------------------------------------- _topological_sort
\* The for loop over the sorted neighbors of the node just popped;
\* st = (zero_degree, result, in_degree_copy), st.raised a KeyError.
RECURSIVE ProcessNeighbors(_, _)
ProcessNeighbors(st, neighbors) ==
    IF neighbors = <<>> \/ st.raised THEN st
    ELSE LET neighbor == Head(neighbors)
         IN  IF neighbor \notin DOMAIN st.in_degree_copy
             THEN [st EXCEPT !.raised = TRUE]
             ELSE LET d == st.in_degree_copy[neighbor] - 1
                      st2 == [st EXCEPT !.in_degree_copy[neighbor] = d,
                                        !.zero_degree =
                                            IF d = 0 THEN Append(@, neighbor) ELSE @]
                  IN  ProcessNeighbors(st2, Tail(neighbors))

\* Faulty variant: the neighbors visited in iteration order.
SortedNeighbors_Unsorted(g, current, it) == SetToList(g[current], it)

\* sorted(graph.get(current, []), key=...): graph[current] iterated in order
\* it, then sorted.
SortedNeighbors(g, current, it) == sorted(SetToList(g[current], it))

\* while zero_degree: popleft, append to result, process the neighbors.
RECURSIVE KahnLoop(_, _, _)
KahnLoop(st, g, it) ==
    IF st.zero_degree = <<>> \/ st.raised THEN st
    ELSE LET current == Head(st.zero_degree)
             popped == [st EXCEPT !.zero_degree = Tail(@),
                                  !.result = Append(@, current)]
             neighbors == SortedNeighbors(g, current, it)
         IN  KahnLoop(ProcessNeighbors(popped, neighbors), g, it)

\* Faulty variant: the initial ready nodes left in iteration order.
InitialZeroDegree_Unsorted(in_deg, listed) ==
    SelectSeq(listed, LAMBDA ref : in_deg[ref] = 0)

\* Faulty variant: a node with one unresolved predecessor counts as ready.
InitialZeroDegree_AtMostOne(in_deg, listed) ==
    sorted(SelectSeq(listed, LAMBDA ref : in_deg[ref] <= 1))

\* deque(sorted([ref for ref in components_to_order if in_degree[ref] == 0],
\* key=...)); listed is components_to_order in its iteration order.
InitialZeroDegree(in_deg, listed) ==
    sorted(SelectSeq(listed, LAMBDA ref : in_deg[ref] = 0))

\* Faulty variant: the nodes left by a cycle are not appended.
CycleFallback_Dropped(kahn_result, components, it) == kahn_result

\* Faulty variant: the nodes left by a cycle are appended in iteration order.
CycleFallback_Unsorted(kahn_result, components, it) ==
    IF Len(kahn_result) # Cardinality(components)
    THEN kahn_result \o SetToList(components \ Range(kahn_result), it)
    ELSE kahn_result

\* The cycle check after the loop: the remaining nodes, sorted, are appended.
CycleFallback(kahn_result, components, it) ==
    IF Len(kahn_result) # Cardinality(components)
    THEN LET unprocessed == components \ Range(kahn_result)
         IN  kahn_result \o sorted(SetToList(unprocessed, it))
    ELSE kahn_result

\* Returns the list, the number of entries emitted by the Kahn phase,
\* whether the cycle warning was logged, the caller's in_degree map as the
\* call leaves it, and whether a lookup raised.
_topological_sort(g, in_deg, components, it) ==
    LET listed == SetToList(components, it)
    IN  IF \E ref \in components : ref \notin DOMAIN in_deg
        THEN [result |-> <<>>, resolved |-> 0, warned |-> FALSE,
              in_degree |-> in_deg, raised |-> TRUE]
        ELSE
        LET zero_degree == InitialZeroDegree(in_deg, listed)
            in_degree_copy == in_deg
            kahn == KahnLoop([zero_degree |-> zero_degree, result |-> <<>>,
                              in_degree_copy |-> in_degree_copy, raised |-> FALSE],
                             g, it)
            cyclic == Len(kahn.result) # Cardinality(components)
        IN  [result |-> CycleFallback(kahn.result, components, it),
             resolved |-> Len(kahn.result),
             warned |-> cyclic,
             in_degree |-> in_deg,
             raised |-> kahn.raised]

\* ------------------------------------------------------- _find_best_position
Max2(a, b) == IF a >= b THEN a ELSE b

Min2(a, b) == IF a <= b THEN a ELSE b

\* Faulty variant: ideal_positions[existing_ref], a KeyError when the key is absent.
existing_ideal_pos_Subscript(ideal_positions, existing_ref) ==
    IF existing_ref \in DOMAIN ideal_positions
    THEN [none |-> FALSE, pos |-> ideal_positions[existing_ref], raised |-> FALSE]
    ELSE [none |-> TRUE, pos |-> 0, raised |-> TRUE]

\* Faulty variant: an absent key reads as a position before every node.
existing_ideal_pos_NoneFirst(ideal_positions, existing_ref) ==
    IF existing_ref \in DOMAIN ideal_positions
    THEN [none |-> FALSE, pos |-> ideal_positions[existing_ref], raised |-> FALSE]
    ELSE [none |-> FALSE, pos |-> -1, raised |-> FALSE]

\* ideal_positions.get(existing_ref): None when the key is absent.
existing_ideal_pos(ideal_positions, existing_ref) ==
    IF existing_ref \in DOMAIN ideal_positions
    THEN [none |-> FALSE, pos |-> ideal_positions[existing_ref], raised |-> FALSE]
    ELSE [none |-> TRUE, pos |-> 0, raised |-> FALSE]

\* for idx, existing_ref in enumerate(current_order), from index idx on;
\* acc = (min_pos, max_pos).
RECURSIVE ScanCurrentOrder(_, _, _, _, _)
ScanCurrentOrder(idx, current_order, ideal_positions, ref_ideal_pos, acc) ==
    IF idx >= Len(current_order) \/ acc.raised THEN acc
    ELSE LET existing == existing_ideal_pos(ideal_positions, current_order[idx + 1])
             acc2 == IF existing.raised THEN [acc EXCEPT !.raised = TRUE]
                     ELSE IF existing.none THEN acc
                     ELSE IF existing.pos < ref_ideal_pos
                          THEN [acc EXCEPT !.min_pos = Max2(@, idx + 1)]
                     ELSE IF existing.pos > ref_ideal_pos
                          THEN [acc EXCEPT !.max_pos = Min2(@, idx)]
                     ELSE acc
         IN  ScanCurrentOrder(idx + 1, current_order, ideal_positions, ref_ideal_pos, acc2)

\* Faulty variant: max_pos starts at the last index, len(current_order) - 1.
_find_best_position_LastIndex(ref, current_order, ideal_positions) ==
    IF current_order = <<>>
    THEN [position |-> 0, min_pos |-> 0, max_pos |-> 0, raised |-> FALSE]
    ELSE IF ref \notin DOMAIN ideal_positions
    THEN [position |-> 0, min_pos |-> 0, max_pos |-> 0, raised |-> TRUE]
    ELSE LET scan == ScanCurrentOrder(0, current_order, ideal_positions,
                                      ideal_positions[ref],
                                      [min_pos |-> 0, max_pos |-> Len(current_order) - 1,
                                       raised |-> FALSE])
         IN  [position |-> scan.min_pos, min_pos |-> scan.min_pos,
              max_pos |-> scan.max_pos, raised |-> scan.raised]

\* Faulty variant: the node is inserted at max_pos, the latest index of the window.
_find_best_position_MaxPos(ref, current_order, ideal_positions) ==
    IF current_order = <<>>
    THEN [position |-> 0, min_pos |-> 0, max_pos |-> 0, raised |-> FALSE]
    ELSE IF ref \notin DOMAIN ideal_positions
    THEN [position |-> 0, min_pos |-> 0, max_pos |-> 0, raised |-> TRUE]
    ELSE LET scan == ScanCurrentOrder(0, current_order, ideal_positions,
                                      ideal_positions[ref],
                                      [min_pos |-> 0, max_pos |-> Len(current_order),
                                       raised |-> FALSE])
         IN  [position |-> scan.max_pos, min_pos |-> scan.min_pos,
              max_pos |-> scan.max_pos, raised |-> scan.raised]

\* Returns the index (position) with the window (min_pos, max_pos) it was
\* taken from; raised records a KeyError of ideal_positions[ref].
_find_best_position(ref, current_order, ideal_positions) ==
    IF current_order = <<>>
    THEN [position |-> 0, min_pos |-> 0, max_pos |-> 0, raised |-> FALSE]
    ELSE IF ref \notin DOMAIN ideal_positions
    THEN [position |-> 0, min_pos |-> 0, max_pos |-> 0, raised |-> TRUE]
    ELSE LET scan == ScanCurrentOrder(0, current_order, ideal_positions,
                                      ideal_positions[ref],
                                      [min_pos |-> 0, max_pos |-> Len(current_order),
                                       raised |-> FALSE])
         IN  [position |-> scan.min_pos, min_pos |-> scan.min_pos,
              max_pos |-> scan.max_pos, raised |-> scan.raised]

\* ------------------------------------------------------------- _merge_orders
\* {ref: idx for idx, ref in enumerate(ideal_order)}: a later index wins.
IdealPositions(ideal) ==
    [ref \in Range(ideal) |->
        (CHOOSE i \in DOMAIN ideal :
            ideal[i] = ref /\ \A j \in DOMAIN ideal : ideal[j] = ref => j <= i) - 1]

\* for ref_to_insert in to_insert: find the position, insert there (in
\* result; the caller's list st.base_order is another list).
RECURSIVE InsertAll(_, _, _)
InsertAll(st, to_insert, ideal_positions) ==
    IF to_insert = <<>> \/ st.raised THEN st
    ELSE LET ref_to_insert == Head(to_insert)
             best == _find_best_position(ref_to_insert, st.result, ideal_positions)
             st2 == IF best.raised THEN [st EXCEPT !.raised = TRUE]
                    ELSE [result |-> ListInsert(st.result, best.position, ref_to_insert),
                          base_order |-> st.base_order,
                          insertions |-> Append(st.insertions,
                                               [ref |-> ref_to_insert,
                                                position |-> best.position,
                                                min_pos |-> best.min_pos,
                                                max_pos |-> best.max_pos]),
                          raised |-> FALSE]
         IN  InsertAll(st2, Tail(to_insert), ideal_positions)

\* Faulty variant: every node of ideal_order is inserted, placed or not.
ToInsert_All(ideal, base) == ideal

\* to_insert = [ref for ref in ideal_order if ref not in base_set]
ToInsert(ideal, base) ==
    LET base_set == Range(base)
    IN  SelectSeq(ideal, LAMBDA ref : ref \notin base_set)

\* Faulty variant: with nothing to insert, ideal_order is returned for base_order.
_merge_orders_ReturnsIdeal(ideal, base) ==
    LET to_insert == ToInsert(ideal, base)
        start == [result |-> base, base_order |-> base, insertions |-> <<>>,
                  raised |-> FALSE]
    IN  IF to_insert = <<>> THEN [start EXCEPT !.result = ideal]
        ELSE InsertAll(start, to_insert, IdealPositions(ideal))

\* Faulty variant: the insertions are made in the caller's list, not in a copy.
_merge_orders_NoCopy(ideal, base) ==
    LET to_insert == ToInsert(ideal, base)
        start == [result |-> base, base_order |-> base, insertions |-> <<>>,
                  raised |-> FALSE]
        merged == InsertAll(start, to_insert, IdealPositions(ideal))
    IN  IF to_insert = <<>> THEN start
        ELSE [merged EXCEPT !.base_order = merged.result]

\* result starts as base_order.copy(); the record holds the returned list
\* (result), the caller's list as the call leaves it (base_order), the
\* insertions made and whether a lookup raised.
_merge_orders(ideal, base) ==
    LET to_insert == ToInsert(ideal, base)
        start == [result |-> base, base_order |-> base, insertions |-> <<>>,
                  raised |-> FALSE]
    IN  IF to_insert = <<>> THEN start
        ELSE InsertAll(start, to_insert, IdealPositions(ideal))

\* ------------------------------------------------------------------ generate
\* Faulty variant: an early return gives the empty list, base order or not.
EarlyReturn_Empty(components, returned) ==
    [pc |-> "returned", components_to_order |-> components,
     graph |-> [ref \in Refs |-> {}], in_degree |-> <<>>, ideal_order |-> <<>>,
     resolved |-> 0, warned |-> FALSE, insertions |-> <<>>, result |-> <<>>]

\* What a call computes when it returns before building the graph.
EarlyReturn(components, returned) ==
    [pc |-> "returned", components_to_order |-> components,
     graph |-> [ref \in Refs |-> {}], in_degree |-> <<>>, ideal_order |-> <<>>,
     resolved |-> 0, warned |-> FALSE, insertions |-> <<>>, result |-> returned]

\* generate(selected_components, base_order) with the sets of the call
\* iterated in order it. The record holds the returned list (result), the
\* outcome (pc: "returned", or "raised" for an exception) and the values
\* the call computed on the way.
generate(rm, selected, base, it) ==
    IF selected = {} THEN EarlyReturn({}, <<>>)
    ELSE
    LET selected_set == selected
        components_with_rules == _get_components_with_rules(rm, selected_set)
        components == IF base # <<>>
                      THEN components_with_rules
                           \cup {base[i] : i \in {j \in DOMAIN base : base[j] \in selected_set}}
                      ELSE components_with_rules
    IN  IF components = {} THEN EarlyReturn({}, IF base # <<>> THEN base ELSE <<>>)
        ELSE
        LET built == _build_dependency_graph(rm, components, it)
            sort == _topological_sort(built.graph, built.in_degree, components, it)
            merged == _merge_orders(sort.result, base)
            outcome == [pc |-> "returned", components_to_order |-> components,
                        graph |-> built.graph, in_degree |-> sort.in_degree,
                        ideal_order |-> sort.result, resolved |-> sort.resolved,
                        warned |-> sort.warned, insertions |-> <<>>,
                        result |-> sort.result]
        IN  IF built.raised
            THEN [EarlyReturn(components, <<>>) EXCEPT !.pc = "raised"]
            ELSE IF sort.raised
            THEN [outcome EXCEPT !.pc = "raised", !.result = <<>>,
                                 !.ideal_order = <<>>, !.resolved = 0]
            ELSE IF base = <<>> THEN outcome
            ELSE IF merged.raised
            THEN [outcome EXCEPT !.pc = "raised", !.result = <<>>]
            ELSE [outcome EXCEPT !.result = merged.result,
                                 !.insertions = merged.insertions]

\* ---------------------------------------------------------------- PauseEntry
PAUSE_PREFIX == <<"p", "a", "u", "s", "e">>

\* The characters descriptions are made of: the separator character and
\* another one.
DescriptionChars == {":", "a"}

Descriptions == SeqUpTo(DescriptionChars, MaxDescLen)

DecimalDigits == <<"0", "1", "2", "3", "4", "5", "6", "7", "8", "9">>

\* The text an f-string gives for a non-negative int: its decimal digits.
RECURSIVE format_int(_)
format_int(n) ==
    IF n < 10 THEN <<DecimalDigits[n + 1]>>
    ELSE format_int(n \div 10) \o <<DecimalDigits[(n % 10) + 1]>>

\* The value of a decimal digit character.
DigitValue(c) == (CHOOSE d \in DOMAIN DecimalDigits : DecimalDigits[d] = c) - 1

\* The number a sequence of decimal digits reads as.
RECURSIVE DecimalValue(_)
DecimalValue(digits) ==
    IF digits = <<>> THEN 0
    ELSE 10 * DecimalValue(SubSeq(digits, 1, Len(digits) - 1))
         + DigitValue(digits[Len(digits)])

\* Faulty variant: the id is formatted from the counter as it was before the
\* increment.
PauseEntry_init_StaleCounter(counter, description) ==
    [counter |-> counter + 1,
     self |-> [pause_id |-> PAUSE_PREFIX \o <<":">> \o format_int(counter),
               description |-> description]]

\* PauseEntry.__init__ run from its first statement to its last with no
\* other construction in between: the class counter after the call and the
\* object built.
PauseEntry_init(counter, description) ==
    LET incremented == counter + 1
    IN  [counter |-> incremented,
         self |-> [pause_id |-> PAUSE_PREFIX \o <<":">> \o format_int(incremented),
                   description |-> description]]

\* The threads of the process that construct pause entries.
Threads == 1..NumThreads

\* A thread that has not entered PauseEntry.__init__: no value read, no id,
\* no other construction met.
IdleThread == [pc |-> "idle", loaded |-> 0, pause_id |-> <<>>, overlapped |-> FALSE]

\* Faulty variant: the value written back is the value read.
Incremented_Same(loaded) == loaded

\* PauseEntry._counter += 1, the value written back for the value read.
Incremented(loaded) == loaded + 1

\* f"{PAUSE_PREFIX}:{PauseEntry._counter}" for the value the counter holds
\* when the f-string reads it.
FormatPauseId(counter) == PAUSE_PREFIX \o <<":">> \o format_int(counter)

\* component_id.startswith("pause:")
is_pause(component_id) ==
    LET prefix == PAUSE_PREFIX \o <<":">>
    IN  /\ Len(component_id) >= Len(prefix)
        /\ SubSeq(component_id, 1, Len(prefix)) = prefix

\* The indices at which "::" starts in s.
SeparatorStarts(s) == {i \in 1..(Len(s) - 1) : s[i] = ":" /\ s[i + 1] = ":"}

\* Faulty variant: the split is made at the last "::" (rsplit).
PauseEntry_parse_LastSeparator(component_id) ==
    IF SeparatorStarts(component_id) # {}
    THEN LET i == CHOOSE k \in SeparatorStarts(component_id) :
                      \A m \in SeparatorStarts(component_id) : m <= k
         IN  <<SubSeq(component_id, 1, i - 1),
               SubSeq(component_id, i + 2, Len(component_id))>>
    ELSE <<component_id, <<>>>>

\* PauseEntry.parse: split("::", 1) cuts at the first "::".
PauseEntry_parse(component_id) ==
    IF SeparatorStarts(component_id) # {}
    THEN LET i == CHOOSE k \in SeparatorStarts(component_id) :
                      \A m \in SeparatorStarts(component_id) : k <= m
         IN  <<SubSeq(component_id, 1, i - 1),
               SubSeq(component_id, i + 2, Len(component_id))>>
    ELSE <<component_id, <<>>>>

\* PauseEntry.__str__
PauseEntry_str(self) ==
    IF self.description # <<>>
    THEN self.pause_id \o <<":", ":">> \o self.description
    ELSE self.pause_id

\* --------------------------------------------------- OrderImportExportManager
\* A JSON value. items holds the elements of an array, members the
\* key/value pairs of an object in document order, text the characters of a
\* string.
JsonValue(type, items, members, text) ==
    [type |-> type, items |-> items, members |-> members, text |-> text]

JsonNull == JsonValue("null", <<>>, <<>>, <<>>)

JsonNumber == JsonValue("number", <<>>, <<>>, <<>>)

JsonString(text) == JsonValue("string", <<>>, <<>>, text)

JsonArray(items) == JsonValue("array", items, <<>>, <<>>)

JsonObject(members) == JsonValue("object", <<>>, members, <<>>)

\* Token strings: a component, a pause marker, a component whose key starts
\* like a pause marker, and a string without separator.
TokenTexts ==
    {<<"a", ":", "1">>,
     PAUSE_PREFIX \o <<":", "1">>,
     <<"a", ":">> \o PAUSE_PREFIX \o <<":", "1">>,
     <<"a">>}

\* The elements a sequence array can hold: strings, or a value that is no
\* string.
TokenValues == {JsonString(text) : text \in TokenTexts} \cup {JsonNumber}

\* Keys of the root object: "0", "1", "01" (the same integer as "1"), "x".
KeyTexts == {<<"0">>, <<"1">>, <<"0", "1">>, <<"x">>}

\* The values of the root object: arrays of tokens, or a value that is no array.
SequenceValues ==
    {JsonArray(items) : items \in SeqUpTo(TokenValues, MaxTokens)}
    \cup {JsonString(<<"a">>)}

\* Root objects of at most max_sequences members, with distinct keys, in
\* document order.
OrderDocuments(max_sequences) ==
    {JsonObject(members) :
        members \in {ms \in SeqUpTo([key : KeyTexts, value : SequenceValues], max_sequences) :
                        \A i, j \in DOMAIN ms : i # j => ms[i].key # ms[j].key}}

\* What the path names in the file system: nothing (missing), nothing in a
\* missing directory, a file the process may not open (denied), a
\* directory, a file on a failing device (io_error), a file whose bytes are
\* not UTF-8 (bytes), a text file that is not JSON, with the component ids
\* its lines hold (text), or a JSON file (json).
FaultKinds == {"missing", "missing_dir", "denied", "directory", "io_error", "bytes"}

Files(max_sequences) ==
    {[kind |-> k, data |-> JsonNull] : k \in FaultKinds}
    \cup {[kind |-> "text", data |-> JsonArray(items)] :
             items \in SeqUpTo({JsonString(text) : text \in TokenTexts}, MaxTokens)}
    \cup {[kind |-> "json", data |-> d] :
             d \in OrderDocuments(max_sequences) \cup {JsonArray(<<>>), JsonNull, JsonString(<<"a">>)}}

\* The base classes of an exception class: the built-in hierarchy, and the
\* three classes the module declares.
Bases(cls) ==
    CASE cls \in {"FileNotFoundError", "PermissionError", "IsADirectoryError"}
             -> {"OSError", "Exception"}
      [] cls \in {"UnicodeDecodeError", "JSONDecodeError"} -> {"ValueError", "Exception"}
      [] cls \in {"InvalidFormatError", "FileReadError"} -> {"OrderImportError", "Exception"}
      [] cls \in {"OSError", "ValueError", "TypeError", "MalformedReference",
                  "OrderImportError"} -> {"Exception"}
      [] OTHER -> {}

\* except cls: catches an exception of class raised.
Catches(cls, raised) == raised = cls \/ cls \in Bases(raised)

\* open(file_path, "r", encoding="utf-8"): the exception raised, "None" when
\* the file opens.
open_r(file) ==
    CASE file.kind \in {"missing", "missing_dir"} -> "FileNotFoundError"
      [] file.kind = "denied" -> "PermissionError"
      [] file.kind = "directory" -> "IsADirectoryError"
      [] OTHER -> "None"

\* open(file_path, "w", encoding="utf-8"): a missing file is created.
open_w(file) ==
    CASE file.kind = "missing_dir" -> "FileNotFoundError"
      [] file.kind = "denied" -> "PermissionError"
      [] file.kind = "directory" -> "IsADirectoryError"
      [] OTHER -> "None"

\* with open(...) as f: data = json.load(f)
json_load(file) ==
    LET failed(cls) == [raised |-> cls, data |-> JsonNull]
    IN  IF open_r(file) # "None" THEN failed(open_r(file))
        ELSE CASE file.kind = "io_error" -> failed("OSError")
               [] file.kind = "bytes" -> failed("UnicodeDecodeError")
               [] file.kind = "text" -> failed("JSONDecodeError")
               [] OTHER -> [raised |-> "None", data |-> file.data]

\* int(key) of a string: the value of a non-empty string of decimal digits,
\* a ValueError otherwise.
int(key) ==
    IF key # <<>> /\ \A i \in DOMAIN key : key[i] \in Range(DecimalDigits)
    THEN [raised |-> "None", value |-> DecimalValue(key)]
    ELSE [raised |-> "ValueError", value |-> 0]

\* ComponentReference.from_string: "mod_id:comp_key", cut at the first
\* separator; a MalformedReference when the separator is absent or a part
\* is empty, a TypeError for a value that is no string.
from_string(token) ==
    LET text == token.text
        colons == {i \in DOMAIN text : text[i] = ":"}
        first == CHOOSE i \in colons : \A j \in colons : i <= j
        failed(cls) == [raised |-> cls, value |-> [mod_id |-> <<>>, comp_key |-> <<>>]]
    IN  IF token.type # "string" THEN failed("TypeError")
        ELSE IF colons = {} THEN failed("MalformedReference")
        ELSE IF first = 1 \/ first = Len(text) THEN failed("MalformedReference")
        ELSE [raised |-> "None",
              value |-> [mod_id |-> SubSeq(text, 1, first - 1),
                         comp_key |-> SubSeq(text, first + 1, Len(text))]]

\* ComponentReference.from_string_list: the references of the tokens, or
\* the exception of the first token that has none.
RECURSIVE from_string_list(_)
from_string_list(tokens) ==
    IF tokens = <<>> THEN [raised |-> "None", value |-> <<>>]
    ELSE LET head == from_string(Head(tokens))
             rest == from_string_list(Tail(tokens))
         IN  IF head.raised # "None" THEN [raised |-> head.raised, value |-> <<>>]
             ELSE IF rest.raised # "None" THEN rest
             ELSE [raised |-> "None", value |-> <<head.value>> \o rest.value]

\* str(reference): "mod_id:comp_key".
to_string(reference) == reference.mod_id \o <<":">> \o reference.comp_key

\* ComponentReference.to_string_list
to_string_list(references) ==
    [i \in DOMAIN references |-> JsonString(to_string(references[i]))]

\* result[seq_idx] = references on a dict.
DictPut(d, key, value) ==
    [k \in DOMAIN d \cup {key} |-> IF k = key THEN value ELSE d[k]]

\* The for loop of OrderFileParser.parse over data.items().
RECURSIVE ParseMembers(_, _)
ParseMembers(members, mapping) ==
    IF members = <<>> THEN [raised |-> "None", result |-> mapping]
    ELSE LET key == Head(members).key
             value == Head(members).value
             seq_idx == int(key)
             references == from_string_list(value.items)
             failed(cls) == [raised |-> cls, result |-> <<>>]
         IN  IF seq_idx.raised # "None"
             THEN IF Catches("ValueError", seq_idx.raised)
                  THEN failed("InvalidFormatError")
                  ELSE failed(seq_idx.raised)
             ELSE IF value.type # "array" THEN failed("InvalidFormatError")
             ELSE IF references.raised # "None"
             THEN IF Catches("Exception", references.raised)
                  THEN failed("InvalidFormatError")
                  ELSE failed(references.raised)
             ELSE ParseMembers(Tail(members),
                               DictPut(mapping, seq_idx.value, references.value))

\* The except clauses of the first try block of OrderFileParser.parse, in
\* order: the class raised for an exception of open or json.load.
ReadHandlers(raised) ==
    IF Catches("FileNotFoundError", raised) THEN "FileReadError"
    ELSE IF Catches("PermissionError", raised) THEN "FileReadError"
    ELSE IF Catches("JSONDecodeError", raised) THEN "InvalidFormatError"
    ELSE IF Catches("Exception", raised) THEN "FileReadError"
    ELSE raised

\* OrderFileParser.parse: the class of the exception raised ("None" for a
\* return) and the mapping returned.
OrderFileParser_parse(file) ==
    LET loaded == json_load(file)
        failed(cls) == [raised |-> cls, result |-> <<>>]
    IN  IF loaded.raised # "None" THEN failed(ReadHandlers(loaded.raised))
        ELSE IF loaded.data.type # "object" THEN failed("InvalidFormatError")
        ELSE ParseMembers(loaded.data.members, <<>>)

\* The keys of a dict in the order the model lists them: ascending.
RECURSIVE SortedKeys(_)
SortedKeys(keys) ==
    IF keys = {} THEN <<>>
    ELSE LET least == CHOOSE k \in keys : \A m \in keys : k <= m
         IN  <<least>> \o SortedKeys(keys \ {least})

\* data = {str(seq_idx): to_string_list(references) ...} as json.dump writes it.
SerializedDocument(order) ==
    LET keys == SortedKeys(DOMAIN order)
    IN  JsonObject([i \in DOMAIN keys |->
                       [key |-> format_int(keys[i]),
                        value |-> JsonArray(to_string_list(order[keys[i]]))]])

\* OrderFileParser.serialize: the class of the exception raised and the file
\* as the call leaves it.
OrderFileParser_serialize(order, file) ==
    LET opened == open_w(file)
        written == IF file.kind = "io_error" THEN "OSError" ELSE "None"
        failed(raised) ==
            [raised |-> IF Catches("PermissionError", raised) THEN "FileReadError"
                        ELSE IF Catches("Exception", raised) THEN "FileReadError"
                        ELSE raised,
             file |-> file]
    IN  IF opened # "None" THEN failed(opened)
        ELSE IF written # "None" THEN failed(written)
        ELSE [raised |-> "None", file |-> [kind |-> "json", data |-> SerializedDocument(order)]]

\* OrderImportExportManager.import_from_json
import_from_json(file) ==
    LET parsed == OrderFileParser_parse(file)
    IN  IF parsed.raised = "None" THEN parsed
        ELSE IF Catches("OrderImportError", parsed.raised) THEN parsed
        ELSE IF Catches("Exception", parsed.raised)
        THEN [parsed EXCEPT !.raised = "OrderImportError"]
        ELSE parsed

\* WeiDULogParser.parse_file(file_path).get_component_ids(): the file is
\* opened and read as text; the exception of that is let through. A JSON
\* file holds no log line.
parse_file(file) ==
    LET failed(cls) == [raised |-> cls, component_ids |-> <<>>]
    IN  IF open_r(file) # "None" THEN failed(open_r(file))
        ELSE CASE file.kind = "io_error" -> failed("OSError")
               [] file.kind = "bytes" -> failed("UnicodeDecodeError")
               [] file.kind = "text" -> [raised |-> "None", component_ids |-> file.data.items]
               [] OTHER -> [raised |-> "None", component_ids |-> <<>>]

\* OrderImportExportManager.import_from_weidu_log
import_from_weidu_log(file) ==
    LET log_entries == parse_file(file)
        references == from_string_list(log_entries.component_ids)
        raised == IF log_entries.raised # "None" THEN log_entries.raised
                  ELSE references.raised
    IN  IF raised = "None" THEN [raised |-> "None", result |-> references.value]
        ELSE IF Catches("FileNotFoundError", raised)
        THEN [raised |-> "FileReadError", result |-> <<>>]
        ELSE IF Catches("Exception", raised)
        THEN [raised |-> "OrderImportError", result |-> <<>>]
        ELSE [raised |-> raised, result |-> <<>>]

\* OrderImportExportManager.export_to_json
export_to_json(order, file) ==
    LET written == OrderFileParser_serialize(order, file)
    IN  IF written.raised = "None" THEN written
        ELSE IF Catches("OrderImportError", written.raised) THEN written
        ELSE IF Catches("Exception", written.raised)
        THEN [written EXCEPT !.raised = "OrderImportError"]
        ELSE written

\* sum(len(references) for references in order.values()) over the keys given.
RECURSIVE TotalLen(_, _)
TotalLen(order, keys) ==
    IF keys = {} THEN 0
    ELSE LET k == CHOOSE x \in keys : TRUE
         IN  Len(order[k]) + TotalLen(order, keys \ {k})

\* sum(1 for ... if PauseEntry.is_pause(reference.comp_key)) over the keys given.
RECURSIVE TotalPauses(_, _)
TotalPauses(order, keys) ==
    IF keys = {} THEN 0
    ELSE LET k == CHOOSE x \in keys : TRUE
         IN  Cardinality({i \in DOMAIN order[k] : is_pause(order[k][i].comp_key)})
             + TotalPauses(order, keys \ {k})

\* OrderImportExportManager.get_order_statistics
get_order_statistics(order) ==
    LET total_components == TotalLen(order, DOMAIN order)
        pauses == TotalPauses(order, DOMAIN order)
    IN  [sequence_count |-> Cardinality(DOMAIN order),
         total_components |-> total_components,
         pause_count |-> pauses,
         component_count |-> total_components - pauses]

\* ---------------------------------------------------------------- GameModels
\* None, as dict.get gives it for a missing key; it is no string of the model.
None == "<None>"

\* bool(value) of a string or None.
Truthy(value) == value # None /\ value # ""

\* InstallStepType is a str Enum: a member is equal to its value.
INSTALL == "ins"

DOWNLOAD == "dwn"

ANNOTATION == "ann"

InstallStepType == {INSTALL, DOWNLOAD, ANNOTATION}

\* InstallStepType.from_string(value)
InstallStepType_from_string(value) ==
    IF ~Truthy(value) THEN [raised |-> "None", value |-> INSTALL]
    ELSE IF value \in InstallStepType THEN [raised |-> "None", value |-> value]
    ELSE [raised |-> "ValueError", value |-> INSTALL]

\* InstallStep(mod, comp, step_type, text): the dataclass fields, then
\* __post_init__.
InstallStep(mod, comp, step_type, text) ==
    [raised |-> IF step_type = ANNOTATION
                THEN IF ~Truthy(text) THEN "ValueError" ELSE "None"
                ELSE IF ~Truthy(mod) THEN "ValueError"
                ELSE IF ~Truthy(comp) THEN "ValueError"
                ELSE "None",
     self |-> [mod |-> mod, comp |-> comp, step_type |-> step_type, text |-> text]]

\* InstallStep.from_dict(data); data holds None for a missing key.
InstallStep_from_dict(data) ==
    LET step_type == InstallStepType_from_string(data.type)
        failed == [raised |-> "ValueError",
                   self |-> [mod |-> "", comp |-> "", step_type |-> INSTALL, text |-> ""]]
    IN  IF step_type.raised # "None" THEN failed
        ELSE IF step_type.value = ANNOTATION
        THEN IF ~Truthy(data.text) THEN failed
             ELSE InstallStep("", "", step_type.value, data.text)
        ELSE IF ~Truthy(data.mod) THEN failed
        ELSE IF ~Truthy(data.comp) THEN failed
        ELSE InstallStep(data.mod, data.comp, step_type.value, "")

is_download_only(self) == self.step_type = DOWNLOAD

is_install(self) == self.step_type = INSTALL

is_annotation(self) == self.step_type = ANNOTATION

\* step.to_dict(): the keys the dictionary holds, None for a key it lacks.
InstallStep_to_dict(self) ==
    IF self.step_type = ANNOTATION
    THEN [type |-> self.step_type, text |-> self.text, mod |-> None, comp |-> None]
    ELSE [mod |-> self.mod, comp |-> self.comp, text |-> None,
          type |-> IF self.step_type # INSTALL THEN self.step_type ELSE None]

\* A tuple of strings or None; in a configuration, a list or a missing key.
NoTuple == [none |-> TRUE, items |-> <<>>]

Tuple(items) == [none |-> FALSE, items |-> items]

\* tuple(value) if value else None
TupleOrNone(value) ==
    IF ~value.none /\ value.items # <<>> THEN Tuple(value.items) ELSE NoTuple

\* tuple(InstallStep.from_dict(step) for step in order_raw)
RECURSIVE StepsFromDicts(_)
StepsFromDicts(order_raw) ==
    IF order_raw = <<>> THEN [raised |-> "None", value |-> <<>>]
    ELSE LET head == InstallStep_from_dict(Head(order_raw))
             rest == StepsFromDicts(Tail(order_raw))
         IN  IF head.raised # "None" THEN [raised |-> head.raised, value |-> <<>>]
             ELSE IF rest.raised # "None" THEN rest
             ELSE [raised |-> "None", value |-> <<head.self>> \o rest.value]

\* GameSequence(game, allowed_mods, blocked_mods, order); the fields
\* required_files, lua_checks and allowed_components are left out.
GameSequence(game, allowed_mods, blocked_mods, order) ==
    [game |-> game, allowed_mods |-> allowed_mods, blocked_mods |-> blocked_mods,
     order |-> order]

\* GameSequence.from_dict(data)
GameSequence_from_dict(data) ==
    LET order == StepsFromDicts(data.order)
        failed == [raised |-> "ValueError", self |-> GameSequence("", NoTuple, NoTuple, <<>>)]
    IN  IF ~Truthy(data.game) THEN failed
        ELSE IF order.raised # "None" THEN failed
        ELSE [raised |-> "None",
              self |-> GameSequence(data.game, TupleOrNone(data.allowed_mods),
                                    TupleOrNone(data.blocked_mods), order.value)]

\* sequence.is_mod_allowed(mod_id)
is_mod_allowed(self, mod_id) ==
    IF (~self.blocked_mods.none /\ self.blocked_mods.items # <<>>)
       /\ mod_id \in Range(self.blocked_mods.items)
    THEN FALSE
    ELSE IF self.allowed_mods.none THEN TRUE
    ELSE mod_id \in Range(self.allowed_mods.items)

\* sequence.get_install_steps(include_downloads)
get_install_steps(self, include_downloads) ==
    IF include_downloads THEN self.order
    ELSE SelectSeq(self.order, is_install)

\* GameDefinition(id, name, sequences): the dataclass fields, then
\* __post_init__.
GameDefinition(id, name, sequences) ==
    [raised |-> IF ~Truthy(id) THEN "ValueError"
                ELSE IF ~Truthy(name) THEN "ValueError"
                ELSE IF sequences = <<>> THEN "ValueError"
                ELSE "None",
     self |-> [id |-> id, name |-> name, sequences |-> sequences]]

\* definition.get_folder_keys()
get_folder_keys(self) ==
    [i \in DOMAIN self.sequences |->
        IF Truthy(self.sequences[i].game) THEN self.sequences[i].game ELSE self.id]

\* ------------------------------------------------------------- state machine
\* Source and target entries of a list of rules.
RECURSIVE RuleRefs(_)
RuleRefs(rules) ==
    IF rules = <<>> THEN 0
    ELSE Cardinality(Head(rules).sources) + Cardinality(Head(rules).targets)
         + RuleRefs(Tail(rules))

\* The rule manager's two lists, as given to OrderGenerator.__init__: at most
\* max_rules rules, both kinds together.
RuleLists(max_rules) ==
    UNION {{rl \in [1..n[1] -> AllDependencyRules] \X [1..n[2] -> AllOrderRules] :
               RuleRefs(rl[1]) + RuleRefs(rl[2]) <= MaxRuleRefs} :
           n \in {m \in (0..max_rules) \X (0..max_rules) : m[1] + m[2] <= max_rules}}

\* No PauseEntry constructed yet: the counter as the class body sets it.
PauseUnused ==
    /\ _counter = 0
    /\ created_ids = <<>>
    /\ last_entry = <<>>
    /\ str_call = <<>>
    /\ parse_call = <<>>
    /\ threads = [t \in Threads |-> IdleThread]

\* No import, export or statistics call made yet.
OrderFileUnused ==
    /\ path_state = [kind |-> "missing", data |-> JsonNull]
    /\ order_mapping = <<>>
    /\ io_call = [name |-> "none", file |-> path_state]
    /\ io_outcome = "none"
    /\ io_result = <<>>

\* The strings the fields of the GameModels objects are drawn from.
StepTexts == {"", "a"}

ModIds == {"a", "b"}

\* Every InstallStep that passes construction validation.
InstallSteps ==
    {made.self : made \in {m \in {InstallStep(mod, comp, step_type, text) :
                                      mod \in StepTexts, comp \in StepTexts,
                                      step_type \in InstallStepType, text \in StepTexts} :
                              m.raised = "None"}}

\* An allowed_mods or blocked_mods entry of a configuration: a list of mod
\* ids, or the key missing.
ModLists == {NoTuple} \cup {Tuple(items) : items \in SeqUpTo(ModIds, MaxMods)}

\* Every GameDefinition that passes construction validation, told apart by
\* its id and the game references of its sequences.
GameDefinitions ==
    {made.self : made \in {m \in {GameDefinition(id, "n", sequences) :
                                      id \in ModIds,
                                      sequences \in SeqUpTo({GameSequence(game, NoTuple, NoTuple, <<>>) :
                                                                game \in ModIds \cup {""}},
                                                            MaxGameSequences)} :
                              m.raised = "None"}}

\* The input of a GameModels operation: the object or configuration it is
\* applied to and its arguments; the fields an operation does not read hold
\* a fixed value.
GameInput(kind, step, sequence, definition, config, mod_id, include_downloads) ==
    [kind |-> kind, step |-> step, sequence |-> sequence, definition |-> definition,
     config |-> config, mod_id |-> mod_id, include_downloads |-> include_downloads]

AnyStep == InstallStep("a", "a", INSTALL, "").self

AnySequence == GameSequence("g", NoTuple, NoTuple, <<>>)

AnyDefinition == GameDefinition("a", "n", <<AnySequence>>).self

NoInput == GameInput("none", AnyStep, AnySequence, AnyDefinition, AnySequence, "a", TRUE)

GameInputs ==
    {GameInput("step", step, AnySequence, AnyDefinition, AnySequence, "a", TRUE) :
        step \in InstallSteps}
    \cup {GameInput("sequence", AnyStep, GameSequence("g", NoTuple, NoTuple, order),
                    AnyDefinition, AnySequence, "a", include_downloads) :
             order \in SeqUpTo(InstallSteps, MaxSteps), include_downloads \in BOOLEAN}
    \cup {GameInput("definition", AnyStep, AnySequence, definition, AnySequence, "a", TRUE) :
             definition \in GameDefinitions}
    \cup {GameInput("config", AnyStep, AnySequence, AnyDefinition,
                    GameSequence("g", allowed_mods, blocked_mods, <<>>), mod_id, TRUE) :
             allowed_mods \in ModLists, blocked_mods \in ModLists,
             mod_id \in ModIds \cup {"c"}}

\* What a GameModels operation gave: the exception raised ("None" for a
\* return) and the value returned, in the field of its type.
GameResult(raised, steps, keys, allowed, step) ==
    [raised |-> raised, steps |-> steps, keys |-> keys, allowed |-> allowed, step |-> step]

NoResult == GameResult("None", <<>>, <<>>, FALSE, AnyStep)

\* No GameModels operation applied.
GameUnused ==
    /\ game_input = NoInput
    /\ game_call = "none"
    /\ game_result = NoResult

Init ==
    /\ \E rl \in RuleLists(MaxRules) : dependency_rules = rl[1] /\ order_rules = rl[2]
    /\ PauseUnused
    /\ OrderFileUnused
    /\ GameUnused
    /\ pc = "idle"
    /\ selected_components = {}
    /\ base_order = <<>>
    /\ components_to_order = {}
    /\ graph = [ref \in Refs |-> {}]
    /\ in_degree = <<>>
    /\ ideal_order = <<>>
    /\ resolved = 0
    /\ warned = FALSE
    /\ insertions = <<>>
    /\ result = <<>>

\* One call of generate, from its entry to its return or its exception;
\* it is the order in which the sets of this call (all subsets of the
\* selected set) are iterated.
Generate ==
    /\ pc = "idle"
    /\ \E selected \in SUBSET Refs, base \in SeqUpTo(Entries, MaxBaseLen) :
        \E it \in Permutations_(selected) :
        \E g \in {generate(rule_manager, selected, base, it)} :
            /\ selected_components' = selected
            /\ base_order' = base
            /\ pc' = g.pc
            /\ components_to_order' = g.components_to_order
            /\ graph' = g.graph
            /\ in_degree' = g.in_degree
            /\ ideal_order' = g.ideal_order
            /\ resolved' = g.resolved
            /\ warned' = g.warned
            /\ insertions' = g.insertions
            /\ result' = g.result
    /\ UNCHANGED <<dependency_rules, order_rules>>
    /\ UNCHANGED pause_vars
    /\ UNCHANGED io_vars
    /\ UNCHANGED game_vars

Next == Generate

Spec == Init /\ [][Next]_vars

\* -------------------------------------------------- PauseSpec: state machine
\* The generator, not called.
GeneratorUnused ==
    /\ dependency_rules = <<>> /\ order_rules = <<>>
    /\ pc = "idle"
    /\ selected_components = {}
    /\ base_order = <<>>
    /\ components_to_order = {}
    /\ graph = [ref \in Refs |-> {}]
    /\ in_degree = <<>>
    /\ ideal_order = <<>>
    /\ resolved = 0
    /\ warned = FALSE
    /\ insertions = <<>>
    /\ result = <<>>

PauseInit == GeneratorUnused /\ PauseUnused /\ OrderFileUnused /\ GameUnused

\* p = PauseEntry(description), constructions executed one at a time.
NewPauseEntry ==
    /\ Len(created_ids) < MaxPauses
    /\ \E description \in Descriptions :
        \E made \in {PauseEntry_init(_counter, description)} :
            /\ _counter' = made.counter
            /\ created_ids' = Append(created_ids, made.self.pause_id)
            /\ last_entry' = <<made.self>>
    /\ UNCHANGED <<str_call, parse_call, threads>>
    /\ UNCHANGED generator_vars
    /\ UNCHANGED game_vars
    /\ UNCHANGED io_vars

\* PauseEntry.reset_counter()
reset_counter ==
    /\ _counter' = 0
    /\ created_ids' = <<>>
    /\ UNCHANGED <<last_entry, str_call, parse_call, threads>>
    /\ UNCHANGED generator_vars
    /\ UNCHANGED game_vars
    /\ UNCHANGED io_vars

\* PauseEntry.parse(str(p)) for the entry p constructed last.
ParseStr ==
    /\ last_entry # <<>>
    /\ \E text \in {PauseEntry_str(last_entry[1])} :
        /\ str_call' = <<[self |-> last_entry[1], result |-> text]>>
        /\ parse_call' = <<[component_id |-> text, result |-> PauseEntry_parse(text)]>>
    /\ UNCHANGED <<_counter, created_ids, last_entry, threads>>
    /\ UNCHANGED generator_vars
    /\ UNCHANGED game_vars
    /\ UNCHANGED io_vars

PauseNext == NewPauseEntry \/ reset_counter \/ ParseStr

PauseSpec == PauseInit /\ [][PauseNext]_vars

\* ---------------------------------------------- ConstructSpec: state machine
\* The threads inside PauseEntry.__init__: the counter read, or written back,
\* and the id not formatted yet.
Constructing == {t \in Threads : threads[t].pc \in {"loaded", "stored"}}

\* Thread t enters __init__ and reads PauseEntry._counter for the increment
\* (line 10, the read); every construction under way now overlaps with
\* this one.
LoadCounter(t) ==
    /\ threads[t].pc = "idle"
    /\ threads' = [u \in Threads |->
                      IF u = t
                      THEN [threads[t] EXCEPT !.pc = "loaded", !.loaded = _counter,
                                              !.overlapped = Constructing # {}]
                      ELSE IF u \in Constructing
                      THEN [threads[u] EXCEPT !.overlapped = TRUE]
                      ELSE threads[u]]
    /\ UNCHANGED <<_counter, created_ids, last_entry, str_call, parse_call>>
    /\ UNCHANGED generator_vars
    /\ UNCHANGED game_vars
    /\ UNCHANGED io_vars

\* Thread t writes the incremented value back (line 10, the write).
StoreCounter(t) ==
    /\ threads[t].pc = "loaded"
    /\ _counter' = Incremented(threads[t].loaded)
    /\ threads' = [threads EXCEPT ![t].pc = "stored"]
    /\ UNCHANGED <<created_ids, last_entry, str_call, parse_call>>
    /\ UNCHANGED generator_vars
    /\ UNCHANGED game_vars
    /\ UNCHANGED io_vars

\* Thread t reads the counter again and formats its id (lines 12-13).
FormatId(t) ==
    /\ threads[t].pc = "stored"
    /\ \E id \in {FormatPauseId(_counter)} :
        /\ threads' = [threads EXCEPT ![t].pc = "done", ![t].pause_id = id]
        /\ created_ids' = Append(created_ids, id)
        /\ last_entry' = <<[pause_id |-> id, description |-> <<>>]>>
    /\ UNCHANGED <<_counter, str_call, parse_call>>
    /\ UNCHANGED generator_vars
    /\ UNCHANGED game_vars
    /\ UNCHANGED io_vars

ConstructNext == \E t \in Threads : LoadCounter(t) \/ StoreCounter(t) \/ FormatId(t)

ConstructSpec == PauseInit /\ [][ConstructNext]_vars

\* ---------------------------------------------- OrderFileSpec: state machine
\* Any file at the path, no call made yet, the application's order empty.
OrderFileInit ==
    /\ GeneratorUnused
    /\ PauseUnused
    /\ GameUnused
    /\ path_state \in Files(MaxSequences)
    /\ order_mapping = <<>>
    /\ io_call = [name |-> "none", file |-> path_state]
    /\ io_outcome = "none"
    /\ io_result = <<>>

\* How a call ended: "returned", or the class of the exception it raised.
Outcome(raised) == IF raised = "None" THEN "returned" ELSE raised

\* OrderFileParser.parse(file_path)
ParseFile ==
    /\ \E r \in {OrderFileParser_parse(path_state)} :
        /\ io_call' = [name |-> "parse", file |-> path_state]
        /\ io_outcome' = Outcome(r.raised)
        /\ io_result' = r.result
    /\ UNCHANGED <<path_state, order_mapping>>
    /\ UNCHANGED generator_vars
    /\ UNCHANGED game_vars
    /\ UNCHANGED pause_vars

\* manager.import_from_json(file_path); the application keeps the mapping.
ImportFromJson ==
    /\ \E r \in {import_from_json(path_state)} :
        /\ io_call' = [name |-> "import_from_json", file |-> path_state]
        /\ io_outcome' = Outcome(r.raised)
        /\ io_result' = r.result
        /\ order_mapping' = IF r.raised = "None" THEN r.result ELSE order_mapping
    /\ UNCHANGED path_state
    /\ UNCHANGED generator_vars
    /\ UNCHANGED game_vars
    /\ UNCHANGED pause_vars

\* manager.import_from_weidu_log(file_path)
ImportFromWeiduLog ==
    /\ \E r \in {import_from_weidu_log(path_state)} :
        /\ io_call' = [name |-> "import_from_weidu_log", file |-> path_state]
        /\ io_outcome' = Outcome(r.raised)
        /\ io_result' = r.result
    /\ UNCHANGED <<path_state, order_mapping>>
    /\ UNCHANGED generator_vars
    /\ UNCHANGED game_vars
    /\ UNCHANGED pause_vars

\* manager.export_to_json(order, file_path) of the order the application holds.
ExportToJson ==
    /\ \E r \in {export_to_json(order_mapping, path_state)} :
        /\ io_call' = [name |-> "export_to_json", file |-> path_state]
        /\ io_outcome' = Outcome(r.raised)
        /\ io_result' = <<>>
        /\ path_state' = r.file
    /\ UNCHANGED order_mapping
    /\ UNCHANGED generator_vars
    /\ UNCHANGED game_vars
    /\ UNCHANGED pause_vars

\* manager.get_order_statistics(order) of the order the application holds.
GetOrderStatistics ==
    /\ io_call' = [name |-> "get_order_statistics", file |-> path_state]
    /\ io_outcome' = "returned"
    /\ io_result' = get_order_statistics(order_mapping)
    /\ UNCHANGED <<path_state, order_mapping>>
    /\ UNCHANGED generator_vars
    /\ UNCHANGED game_vars
    /\ UNCHANGED pause_vars

OrderFileNext ==
    \/ ParseFile
    \/ ImportFromJson
    \/ ImportFromWeiduLog
    \/ ExportToJson
    \/ GetOrderStatistics

OrderFileSpec == OrderFileInit /\ [][OrderFileNext]_vars

\* --------------------------------------------------- SortSpec: state machine
\* The graphs _build_dependency_graph can return over a node set: any set of
\* edges between two different nodes of the set (one order rule per edge
\* builds it), with the in-degree map that counts them.
Graphs(components) ==
    {[graph |-> [u \in Refs |-> {v \in components : <<u, v>> \in edges}],
      in_degree |-> [v \in components |-> Cardinality({u \in components : <<u, v>> \in edges})]] :
        edges \in SUBSET {e \in components \X components : e[1] # e[2]}}

\* A graph over a non-empty node set, not sorted yet.
SortInit ==
    /\ PauseUnused
    /\ OrderFileUnused
    /\ GameUnused
    /\ dependency_rules = <<>> /\ order_rules = <<>>
    /\ pc = "idle"
    /\ selected_components = {}
    /\ base_order = <<>>
    /\ components_to_order \in (SUBSET Refs) \ {{}}
    /\ \E built \in Graphs(components_to_order) :
          graph = built.graph /\ in_degree = built.in_degree
    /\ ideal_order = <<>>
    /\ resolved = 0
    /\ warned = FALSE
    /\ insertions = <<>>
    /\ result = <<>>

\* One call _topological_sort(graph, in_degree, components_to_order), the
\* node set iterated in order it.
TopologicalSort ==
    /\ pc = "idle"
    /\ \E it \in Permutations_(components_to_order) :
        \E sort \in {_topological_sort(graph, in_degree, components_to_order, it)} :
            /\ pc' = IF sort.raised THEN "raised" ELSE "returned"
            /\ in_degree' = sort.in_degree
            /\ ideal_order' = sort.result
            /\ resolved' = sort.resolved
            /\ warned' = sort.warned
            /\ result' = sort.result
    /\ UNCHANGED <<dependency_rules, order_rules, selected_components, base_order,
                   components_to_order, graph, insertions>>
    /\ UNCHANGED pause_vars
    /\ UNCHANGED io_vars
    /\ UNCHANGED game_vars

SortNext == TopologicalSort

SortSpec == SortInit /\ [][SortNext]_vars

\* --------------------------------------------------- GameSpec: state machine
\* An object or a configuration, no operation applied to it yet.
GameInit ==
    /\ GeneratorUnused
    /\ PauseUnused
    /\ OrderFileUnused
    /\ game_input \in GameInputs
    /\ game_call = "none"
    /\ game_result = NoResult

\* InstallStep.from_dict(step.to_dict())
StepFromDictToDict ==
    /\ game_call = "none" /\ game_input.kind = "step"
    /\ \E made \in {InstallStep_from_dict(InstallStep_to_dict(game_input.step))} :
        game_result' = GameResult(made.raised, <<>>, <<>>, FALSE, made.self)
    /\ game_call' = "from_dict(to_dict)"
    /\ UNCHANGED game_input
    /\ UNCHANGED generator_vars
    /\ UNCHANGED pause_vars
    /\ UNCHANGED io_vars

\* sequence.get_install_steps(include_downloads)
GetInstallSteps ==
    /\ game_call = "none" /\ game_input.kind = "sequence"
    /\ game_result' = GameResult("None",
                                 get_install_steps(game_input.sequence,
                                                   game_input.include_downloads),
                                 <<>>, FALSE, AnyStep)
    /\ game_call' = "get_install_steps"
    /\ UNCHANGED game_input
    /\ UNCHANGED generator_vars
    /\ UNCHANGED pause_vars
    /\ UNCHANGED io_vars

\* definition.get_folder_keys()
GetFolderKeys ==
    /\ game_call = "none" /\ game_input.kind = "definition"
    /\ game_result' = GameResult("None", <<>>, get_folder_keys(game_input.definition),
                                 FALSE, AnyStep)
    /\ game_call' = "get_folder_keys"
    /\ UNCHANGED game_input
    /\ UNCHANGED generator_vars
    /\ UNCHANGED pause_vars
    /\ UNCHANGED io_vars

\* GameSequence.from_dict(config).is_mod_allowed(mod_id)
IsModAllowed ==
    /\ game_call = "none" /\ game_input.kind = "config"
    /\ \E made \in {GameSequence_from_dict(game_input.config)} :
        game_result' = GameResult(made.raised, <<>>, <<>>,
                                  made.raised = "None"
                                      /\ is_mod_allowed(made.self, game_input.mod_id),
                                  AnyStep)
    /\ game_call' = "is_mod_allowed"
    /\ UNCHANGED game_input
    /\ UNCHANGED generator_vars
    /\ UNCHANGED pause_vars
    /\ UNCHANGED io_vars

GameNext == StepFromDictToDict \/ GetInstallSteps \/ GetFolderKeys \/ IsModAllowed

GameSpec == GameInit /\ [][GameNext]_vars

\* ================================================================= properties
Returned == pc = "returned"

\* The first index of x in s.
Index(s, x) == CHOOSE i \in DOMAIN s : s[i] = x /\ \A j \in DOMAIN s : s[j] = x => i <= j

Count(s, x) == Cardinality({i \in DOMAIN s : s[i] = x})

Ascending(s) == \A i, j \in DOMAIN s : i < j => KeyLess(s[i], s[j])

AllRules == Range(dependency_rules) \cup Range(order_rules)

\* The edges before -> after the rules derive over a node set.
RuleEdges(nodes) ==
    {e \in nodes \X nodes :
        /\ e[1] # e[2]
        /\ \/ \E rule \in Range(dependency_rules) :
                 rule.implicit_order /\ e[1] \in rule.targets /\ e[2] \in rule.sources
           \/ \E rule \in Range(order_rules) :
                 \/ /\ rule.order_direction = "BEFORE"
                    /\ e[1] \in rule.sources /\ e[2] \in rule.targets
                 \/ /\ rule.order_direction = "AFTER"
                    /\ e[1] \in rule.targets /\ e[2] \in rule.sources}

\* No cycle: every non-empty set of nodes has a node no edge enters from the set.
Acyclic(nodes, edges) ==
    \A S \in SUBSET nodes :
        S # {} => \E v \in S : \A u \in S : <<u, v>> \notin edges

WorkingEdges == RuleEdges(components_to_order)

\* C1: for an acyclic rule set, generate(selected, None) returns a list in
\* which, for every rule-derived edge before -> after over the working node
\* set, before occurs at a strictly smaller index than after.
C1_TopologicalOrder ==
    (Returned /\ base_order = <<>> /\ Acyclic(components_to_order, WorkingEdges))
    => \A e \in WorkingEdges :
          /\ e[1] \in Range(result)
          /\ e[2] \in Range(result)
          /\ Index(result, e[1]) < Index(result, e[2])

\* An acyclic call without base order whose edges force an order that is not
\* the ascending one.
C1_Witness ==
    /\ Returned /\ base_order = <<>>
    /\ Acyclic(components_to_order, WorkingEdges)
    /\ Cardinality(WorkingEdges) >= 2
    /\ Len(result) = NumRefs
    /\ ~Ascending(result)

\* All listings of the same rules.
Reorderings(s) == {[i \in DOMAIN s |-> s[q[i]]] : q \in Permutations_(DOMAIN s)}

ReorderedManagers ==
    {[dependency_rules |-> d, order_rules |-> o] :
        d \in Reorderings(dependency_rules), o \in Reorderings(order_rules)}

\* C2: generate is deterministic: the call returns the same list (or ends the
\* same way) whatever the iteration order of the sets of the call and
\* whatever the order in which the rule manager lists the rules.
C2_Deterministic ==
    pc # "idle" =>
        \A rm \in ReorderedManagers :
            \A it \in Permutations_(selected_components) :
                \A g \in {generate(rm, selected_components, base_order, it)} :
                    g.pc = pc /\ g.result = result

\* A call over three nodes under two different rules of one list.
C2_Witness ==
    /\ Returned
    /\ Len(result) = NumRefs
    /\ Cardinality(components_to_order) = NumRefs
    /\ Len(order_rules) = 2 /\ order_rules[1] # order_rules[2]
    /\ Cardinality(WorkingEdges) >= 2

\* The entries of base_order keep their relative order in the result.
BasePreserved == SelectSeq(result, LAMBDA e : e \in Range(base_order)) = base_order

\* C3 as stated: for every call with a non-empty base_order the entries of
\* base_order keep their relative order in the returned list, and when every
\* working node is in base_order the result equals base_order.
C3_AsStated ==
    (Returned /\ base_order # <<>>)
    => /\ BasePreserved
       /\ components_to_order \subseteq Range(base_order) => result = base_order

\* C3 (amended): the same for every call with a non-empty base_order and a
\* non-empty selection.
C3_BaseOrderPreserved ==
    (Returned /\ base_order # <<>> /\ selected_components # {})
    => /\ BasePreserved
       /\ components_to_order \subseteq Range(base_order) => result = base_order

\* A merge with an insertion into a base order that places two working nodes
\* against their ideal order.
C3_Witness ==
    /\ Returned /\ insertions # <<>>
    /\ \E i, j \in DOMAIN base_order :
          /\ i < j
          /\ {base_order[i], base_order[j]} \subseteq Range(ideal_order)
          /\ Index(ideal_order, base_order[i]) > Index(ideal_order, base_order[j])

\* _merge_orders was called by the last call.
Merged == Returned /\ base_order # <<>> /\ components_to_order # {}

\* C4: the list _merge_orders returns has length |base_order| + |nodes of
\* ideal_order not in base_order|; it contains every entry of base_order and
\* every node of ideal_order, and a node of ideal_order that is not in
\* base_order occurs exactly once.
C4_InsertionComplete ==
    Merged =>
        /\ Len(result) = Len(base_order)
                         + Cardinality(Range(ideal_order) \ Range(base_order))
        /\ Range(base_order) \subseteq Range(result)
        /\ Range(ideal_order) \subseteq Range(result)
        /\ \A x \in Range(ideal_order) \ Range(base_order) : Count(result, x) = 1

\* A merge that inserts into a base order holding a pause token and a working
\* node.
C4_Witness ==
    /\ Merged
    /\ Len(insertions) >= 2
    /\ PauseRef \in Range(base_order)
    /\ Range(base_order) \cap Range(ideal_order) # {}

\* C5: _topological_sort returns a list whose length is the size of the
\* working node set and in which every working node occurs exactly once,
\* for cyclic graphs too.
C5_SortComplete ==
    Returned =>
        /\ Len(ideal_order) = Cardinality(components_to_order)
        /\ \A v \in components_to_order : Count(ideal_order, v) = 1

\* A sort of three nodes that ended in the cycle fallback.
C5_Witness ==
    /\ Returned /\ warned
    /\ Cardinality(components_to_order) = NumRefs
    /\ resolved < Len(ideal_order)

\* The nodes with an edge into v in the graph of the last call.
Preds(v) == {u \in components_to_order : v \in graph[u]}

\* The nodes appended to the sorted list before step i.
EmittedBefore(i) == {ideal_order[j] : j \in 1..(i - 1)}

\* The nodes whose remaining in-degree is zero at step i.
ReadyAt(i) ==
    {v \in components_to_order \ EmittedBefore(i) : Preds(v) \subseteq EmittedBefore(i)}

\* The step after which v is ready: the step of its last predecessor, 0 for
\* a node without predecessors.
ReadyTime(v) ==
    LET steps == {0} \cup {Index(ideal_order, u) : u \in Preds(v) \cap Range(ideal_order)}
    IN  CHOOSE t \in steps : \A u \in steps : u <= t

\* C6 as stated: at every step of the Kahn phase the node appended is the
\* smallest in (mod_id, comp_key) order among all nodes whose remaining
\* in-degree is zero at that moment.
C6_AsStated ==
    Returned =>
        \A i \in 1..resolved :
            \A v \in ReadyAt(i) : ~KeyLess(v, ideal_order[i])

\* C6 (amended): at every step of the Kahn phase the node appended is ready,
\* and the nodes are appended first in the order of the step after which
\* they became ready, and in ascending (mod_id, comp_key) order among the
\* nodes that became ready after the same step (a first-in first-out queue
\* filled in sorted batches).
C6_FifoBatches ==
    Returned =>
        \A i \in 1..resolved :
            /\ ideal_order[i] \in ReadyAt(i)
            /\ \A j \in (i + 1)..resolved :
                  \/ ReadyTime(ideal_order[i]) < ReadyTime(ideal_order[j])
                  \/ /\ ReadyTime(ideal_order[i]) = ReadyTime(ideal_order[j])
                     /\ KeyLess(ideal_order[i], ideal_order[j])

\* A step that appends a node although a smaller node is ready: the smaller
\* one became ready later.
C6_Witness ==
    /\ Returned
    /\ \E i \in 1..resolved :
          \E v \in ReadyAt(i) :
              /\ KeyLess(v, ideal_order[i])
              /\ ReadyTime(ideal_order[i]) < ReadyTime(v)

\* An order-relevant rule has c as one endpoint and a selected component as
\* the other (c itself counted, for a rule that names c on both sides).
OrderRelevantPartner(c) ==
    \E rule \in AllRules :
        /\ AffectsOrdering(rule)
        /\ \/ c \in rule.sources /\ rule.targets \cap selected_components # {}
           \/ c \in rule.targets /\ rule.sources \cap selected_components # {}

\* C7 as stated: in generate(selected, None) a selected component is in the
\* working node set, and in the output, only if some order-relevant rule has
\* it as one endpoint and another selected component as the other endpoint.
C7_AsStated ==
    (Returned /\ base_order = <<>>)
    => \A c \in selected_components :
          (c \in components_to_order \/ c \in Range(result)) => OrderRelevantPartner(c)

\* The rules the rule manager returns for c.
RulesFor(c) == {rule \in AllRules : c \in rule.sources \cup rule.targets}

\* C7 (amended): in generate(selected, None) a selected component is in the
\* working node set, and in the output, exactly when the rule manager returns
\* at least one rule for it (of any kind, presence-only rules and rules whose
\* other endpoints are unselected included), or it is a target of an
\* order-relevant rule returned for such a component.
C7_WorkingSet ==
    (Returned /\ base_order = <<>> /\ selected_components # {})
    => /\ components_to_order =
            {c \in selected_components :
                \/ RulesFor(c) # {}
                \/ \E d \in selected_components :
                      \E rule \in RulesFor(d) : AffectsOrdering(rule) /\ c \in rule.targets}
       /\ Range(result) = components_to_order

\* A call that orders a component whose only rule is a presence-only
\* dependency on an unselected component, and leaves out a selected
\* component without rules.
C7_Witness ==
    /\ Returned /\ base_order = <<>>
    /\ \E c \in Range(result) :
          /\ RulesFor(c) # {}
          /\ \A rule \in RulesFor(c) :
                /\ ~AffectsOrdering(rule)
                /\ (rule.sources \cup rule.targets) \cap selected_components = {c}
    /\ \E z \in selected_components : RulesFor(z) = {} /\ z \notin Range(result)

X == ComponentReference(1)

Y == ComponentReference(2)

Z == ComponentReference(3)

\* Scenario A: X depends on Y in install order, Z has no rule.
ScenarioA ==
    /\ dependency_rules = <<DependencyRule({X}, {Y}, TRUE)>>
    /\ order_rules = <<>>
    /\ selected_components = {X, Y, Z}
    /\ base_order = <<>>

\* C8: a selected component that no rule touches and that is not in
\* base_order never appears in the result; in scenario A the result is [Y, X].
C8_UnconstrainedExcluded ==
    Returned =>
        /\ \A c \in selected_components :
              (RulesFor(c) = {} /\ c \notin Range(base_order)) => c \notin Range(result)
        /\ ScenarioA => result = <<Y, X>>

C8_Witness == Returned /\ ScenarioA /\ Z \notin Range(result)

\* The nodes the Kahn phase can resolve: those not on a cycle nor behind one.
RECURSIVE Resolvable(_)
Resolvable(done) ==
    LET more == {v \in components_to_order \ done : Preds(v) \subseteq done}
    IN  IF more = {} THEN done ELSE Resolvable(done \cup more)

\* Scenario B: two order rules forming the direct cycle X before Y, Y before X.
ScenarioB ==
    /\ dependency_rules = <<>>
    /\ order_rules = <<OrderRule({X}, {Y}, "BEFORE"), OrderRule({Y}, {X}, "BEFORE")>>
    /\ selected_components = {X, Y}
    /\ base_order = <<>>

\* C9: when the Kahn phase leaves nodes unresolved, the sorted list is the
\* Kahn-phase prefix (the resolvable nodes) followed by all unresolved nodes
\* in ascending (mod_id, comp_key) order, and the warning is logged; in
\* scenario B the result is [X, Y].
C9_FallbackOrder ==
    Returned =>
        /\ resolved < Cardinality(components_to_order) =>
              /\ warned
              /\ Len(ideal_order) = Cardinality(components_to_order)
              /\ {ideal_order[i] : i \in 1..resolved} = Resolvable({})
              /\ {ideal_order[i] : i \in (resolved + 1)..Len(ideal_order)}
                     = components_to_order \ Resolvable({})
              /\ Ascending(SubSeq(ideal_order, resolved + 1, Len(ideal_order)))
        /\ ScenarioB => result = <<X, Y>> /\ warned

\* A fallback after a non-empty Kahn phase.
C9_Witness ==
    /\ Returned /\ warned
    /\ resolved >= 1
    /\ Len(ideal_order) - resolved >= 2

\* C10: generate never raises: every in_degree lookup and every
\* ideal_positions[ref] lookup hits an existing key, and a cycle yields a
\* normal return.
C10_NeverRaises == pc # "raised"

\* A normal return of a call with a cyclic, self-referential rule and a base
\* order with a duplicated, unselected entry.
C10_Witness ==
    /\ Returned /\ warned
    /\ \E rule \in AllRules : rule.sources \cap rule.targets # {}
    /\ insertions # <<>>
    /\ \E i, j \in DOMAIN base_order :
          i # j /\ base_order[i] = base_order[j]
          /\ base_order[i] \notin selected_components

\* C16: when selected is non-empty and the working node set is empty (no
\* selected component has a rule and no base_order entry is selected),
\* generate returns base_order unchanged, the same entries in the same
\* order, or the empty list when no base_order was supplied.
C16_EmptyWorkingSet ==
    (Returned /\ selected_components # {})
    => /\ components_to_order = {}
          <=> /\ \A c \in selected_components : RulesFor(c) = {}
              /\ Range(base_order) \cap selected_components = {}
       /\ components_to_order = {}
          => /\ result = base_order
             /\ insertions = <<>>
             /\ ideal_order = <<>>

\* A call with rules and a base order of a pause and an unselected component,
\* none of which touches the selection.
C16_Witness ==
    /\ Returned
    /\ selected_components # {}
    /\ components_to_order = {}
    /\ AllRules # {}
    /\ Len(base_order) = MaxBaseLen
    /\ PauseRef \in Range(base_order)
    /\ Range(base_order) \cap Refs # {}
    /\ result = base_order

\* Every insertion of the last merge had min_pos <= max_pos.
WindowsOrdered == \A i \in DOMAIN insertions : insertions[i].min_pos <= insertions[i].max_pos

\* The entries of base_order that have a position in ideal_order occur in
\* base_order in the order of ideal_order.
BaseFollowsIdeal ==
    \A i, j \in DOMAIN base_order :
        (i < j /\ {base_order[i], base_order[j]} \subseteq Range(ideal_order))
        => Index(ideal_order, base_order[i]) <= Index(ideal_order, base_order[j])

ViolatesNoEdge(s) ==
    \A e \in WorkingEdges :
        \A i, j \in DOMAIN s : (s[i] = e[1] /\ s[j] = e[2]) => i < j

\* C18: for an acyclic rule set and a non-empty base_order that itself
\* violates no rule-derived edge, the list returned by
\* generate(selected, base_order) violates no rule-derived edge between
\* working-set nodes, edges that involve newly inserted nodes included.
C18_MergeRespectsEdges ==
    (/\ Returned
     /\ base_order # <<>>
     /\ selected_components # {}
     /\ Acyclic(components_to_order, WorkingEdges)
     /\ ViolatesNoEdge(base_order))
    => ViolatesNoEdge(result)

\* The edges of the graph of the last call.
GraphEdges == {e \in Refs \X Refs : e[2] \in graph[e[1]]}

\* C19: after _build_dependency_graph, for every node v of the working set
\* in_degree[v] is the number of distinct nodes u with v in graph[u]; the
\* graph has no self-edge and no edge with an endpoint outside the working
\* set, also when several rules (or one rule listed twice) derive the same
\* edge; no edge is derived from a DependencyRule with implicit_order=false.
C19_GraphInvariant ==
    (Returned /\ components_to_order # {})
    => /\ DOMAIN in_degree = components_to_order
       /\ \A v \in components_to_order :
             in_degree[v] = Cardinality({u \in Refs : v \in graph[u]})
       /\ \A e \in GraphEdges :
             e[1] # e[2] /\ {e[1], e[2]} \subseteq components_to_order
       /\ GraphEdges = WorkingEdges

\* The rules that derive the edge e.
Deriving(e) ==
    {i \in DOMAIN dependency_rules :
        /\ dependency_rules[i].implicit_order
        /\ e[1] \in dependency_rules[i].targets /\ e[2] \in dependency_rules[i].sources}
    \cup
    {Len(dependency_rules) + i : i \in
        {k \in DOMAIN order_rules :
            \/ /\ order_rules[k].order_direction = "BEFORE"
               /\ e[1] \in order_rules[k].sources /\ e[2] \in order_rules[k].targets
            \/ /\ order_rules[k].order_direction = "AFTER"
               /\ e[1] \in order_rules[k].targets /\ e[2] \in order_rules[k].sources}}

\* A graph with an edge that two listed rules derive, into a node of
\* in-degree 1.
C19_Witness ==
    /\ Returned /\ components_to_order # {}
    /\ \E e \in GraphEdges : Cardinality(Deriving(e)) >= 2 /\ in_degree[e[2]] = 1

\* The order rule stating the same constraint in the other direction.
Mirror(rule) ==
    OrderRule(rule.targets, rule.sources,
              IF rule.order_direction = "AFTER" THEN "BEFORE" ELSE "AFTER")

\* The rule managers in which some of the order rules are replaced by their
\* mirror.
MirroredManagers ==
    {[dependency_rules |-> dependency_rules,
      order_rules |-> [i \in DOMAIN order_rules |->
                          IF i \in flipped THEN Mirror(order_rules[i]) ELSE order_rules[i]]] :
        flipped \in SUBSET DOMAIN order_rules}

\* C20: an OrderRule{sources=S, targets=T, AFTER} contributes exactly the
\* same graph edges as an OrderRule{sources=T, targets=S, BEFORE}, so
\* replacing one by the other never changes the output of generate.
C20_DirectionSymmetry ==
    pc # "idle" =>
        \A rm \in MirroredManagers :
            \A it \in Permutations_(selected_components) :
                \A g \in {generate(rm, selected_components, base_order, it)} :
                    /\ g.pc = pc
                    /\ g.graph = graph
                    /\ g.result = result

\* A call under an AFTER rule with more targets than sources whose edges
\* decide the result.
C20_Witness ==
    /\ Returned
    /\ \E i \in DOMAIN order_rules :
          /\ order_rules[i].order_direction = "AFTER"
          /\ Cardinality(order_rules[i].targets) > Cardinality(order_rules[i].sources)
          /\ order_rules[i].sources \cap order_rules[i].targets = {}
    /\ Cardinality(GraphEdges) >= 2
    /\ ~Ascending(result)

\* ------------------------------------------------------ PauseEntry properties
\* The number of a pause id: what follows "pause:", read as a decimal.
PauseNumber(pause_id) ==
    DecimalValue(SubSeq(pause_id, Len(PAUSE_PREFIX) + 2, Len(pause_id)))

\* C11: with constructions executed one at a time, the k-th PauseEntry
\* created since process start or since the last reset_counter() has
\* pause_id "pause:k", k from 1; two entries created with no reset between
\* them have distinct ids and the later one has the larger number.
C11_IdsFollowCounter ==
    /\ \A k \in DOMAIN created_ids :
          /\ created_ids[k] = PAUSE_PREFIX \o <<":">> \o format_int(k)
          /\ PauseNumber(created_ids[k]) = k
    /\ \A i, j \in DOMAIN created_ids :
          i < j => /\ created_ids[i] # created_ids[j]
                   /\ PauseNumber(created_ids[i]) < PauseNumber(created_ids[j])

\* Ten entries or more created after a reset that followed the construction
\* of an entry with a larger id.
C11_Witness ==
    /\ Len(created_ids) >= 10
    /\ str_call # <<>>
    /\ str_call[1].self.pause_id \notin Range(created_ids)
    /\ PauseNumber(str_call[1].self.pause_id) > Len(created_ids)

\* C12: for every PauseEntry p with any description (empty, or containing
\* ':' or '::'), PauseEntry.parse(str(p)) returns exactly
\* (p.pause_id, p.description); str(p) is the bare id when the description
\* is empty and id + '::' + description otherwise.
C12_PauseRoundTrip ==
    parse_call # <<>> =>
        LET p == str_call[1].self
        IN  /\ parse_call[1].component_id = str_call[1].result
            /\ parse_call[1].result = <<p.pause_id, p.description>>
            /\ str_call[1].result =
                  IF p.description = <<>> THEN p.pause_id
                  ELSE p.pause_id \o <<":", ":">> \o p.description

\* A round trip of an entry whose description itself holds "::", after the
\* separator of the string form.
C12_Witness ==
    /\ parse_call # <<>>
    /\ SeparatorStarts(str_call[1].self.description) # {}
    /\ Cardinality(SeparatorStarts(str_call[1].result)) >= 2
    /\ Len(str_call[1].self.pause_id) = Len(PAUSE_PREFIX) + 3

\* ------------------------------------------------- import/export properties
\* A string of decimal digits, at least one.
IsInteger(text) == text # <<>> /\ \A i \in DOMAIN text : text[i] \in Range(DecimalDigits)

\* A token that is a string "mod_id:comp_key" with both parts non-empty.
WellFormedToken(token) ==
    /\ token.type = "string"
    /\ \E i \in DOMAIN token.text :
          token.text[i] = ":" /\ 1 < i /\ i < Len(token.text)
    /\ token.text[1] # ":"

\* The content at the path is not an order document: it cannot be decoded
\* as JSON (bytes that are no UTF-8 text, text that is no JSON), its root is
\* no object, a key is no integer, a value is no list, or a token of a list
\* does not parse.
FormatViolation(file) ==
    \/ file.kind \in {"bytes", "text"}
    \/ /\ file.kind = "json"
       /\ \/ file.data.type # "object"
          \/ \E m \in Range(file.data.members) :
                \/ ~IsInteger(m.key)
                \/ m.value.type # "array"
                \/ \E token \in Range(m.value.items) : ~WellFormedToken(token)

\* The path cannot be read: nothing is there, permission is denied, or the
\* read itself fails.
ReadFault(file) ==
    file.kind \in {"missing", "missing_dir", "denied", "directory", "io_error"}

\* The path cannot be written: its directory is missing, permission is
\* denied, or the write itself fails.
WriteFault(file) == file.kind \in {"missing_dir", "denied", "directory", "io_error"}

\* C13: OrderFileParser.parse raises InvalidFormatError exactly for
\* undecodable JSON, a non-object root, a non-integer sequence key, a
\* non-list sequence value or an unparseable token, and FileReadError
\* exactly for a missing file, a permission failure or any other read fault;
\* on any error no mapping is returned.
C13_ErrorKinds ==
    io_call.name = "parse" =>
        /\ io_outcome = "InvalidFormatError" <=> FormatViolation(io_call.file)
        /\ io_outcome = "FileReadError" <=> ReadFault(io_call.file)
        /\ io_outcome \in {"returned", "InvalidFormatError", "FileReadError"}
        /\ io_outcome # "returned" => io_result = <<>>

\* C14: import_from_json, import_from_weidu_log and export_to_json report a
\* missing file, a permission-denied failure and any other underlying
\* read/write fault as FileReadError, never as a bare OrderImportError or as
\* InvalidFormatError.
C14_FaultsAreFileReadErrors ==
    /\ io_call.name \in {"import_from_json", "import_from_weidu_log"}
          => (ReadFault(io_call.file) => io_outcome = "FileReadError")
    /\ io_call.name = "export_to_json"
          => (WriteFault(io_call.file) => io_outcome = "FileReadError")

\* The positions of an order mapping: sequence index and index in the sequence.
Positions(order) == {pos \in (DOMAIN order) \X (1..MaxTokens) : pos[2] <= Len(order[pos[1]])}

\* The text is a pause marker: "pause:<n>" or "pause:<n>::<description>".
IsPauseToken(text) ==
    LET id == PauseEntry_parse(text)[1]
        n == SubSeq(id, Len(PAUSE_PREFIX) + 2, Len(id))
    IN  is_pause(id) /\ IsInteger(n)

\* C15: for every order mapping, sequence_count is the number of sequences,
\* total_components the sum of the lengths of all sequences, pause_count the
\* number of entries that are pause tokens, component_count =
\* total_components - pause_count, and 0 <= pause_count <= total_components.
C15_Statistics ==
    io_call.name = "get_order_statistics" =>
        /\ io_result.sequence_count = Cardinality(DOMAIN order_mapping)
        /\ io_result.total_components = Cardinality(Positions(order_mapping))
        /\ io_result.pause_count =
              Cardinality({pos \in Positions(order_mapping) :
                              IsPauseToken(to_string(order_mapping[pos[1]][pos[2]]))})
        /\ io_result.component_count = io_result.total_components - io_result.pause_count
        /\ 0 <= io_result.pause_count
        /\ io_result.pause_count <= io_result.total_components

\* ------------------------------------------------- properties of the merge
\* The growing result before the k-th insertion of the last merge.
RECURSIVE CurrentOrder(_)
CurrentOrder(k) ==
    IF k = 1 THEN base_order
    ELSE ListInsert(CurrentOrder(k - 1), insertions[k - 1].position, insertions[k - 1].ref)

\* The entries placed before the k-th insertion whose ideal_order position is
\* smaller than that of the node the k-th insertion inserts.
PlacedPredecessors(k) ==
    {e \in Range(CurrentOrder(k)) \cap Range(ideal_order) :
        Index(ideal_order, e) < Index(ideal_order, insertions[k].ref)}

\* C21: during the merge, a node to insert for which no already-placed entry
\* has a smaller ideal_order position is inserted at index 0 of the growing
\* result, ahead of every base_order entry, entries without ideal position
\* (unselected components, pause tokens) included.
C21_FrontClustering ==
    Returned =>
        \A k \in DOMAIN insertions :
            PlacedPredecessors(k) = {} =>
                /\ insertions[k].position = 0
                /\ \A e \in Range(base_order) :
                      Index(CurrentOrder(k + 1), insertions[k].ref)
                          < Index(CurrentOrder(k + 1), e)

\* A node without placed predecessor inserted ahead of a base order that
\* holds a pause token and an unselected component.
C21_Witness ==
    /\ Returned
    /\ \E k \in DOMAIN insertions :
          /\ PlacedPredecessors(k) = {}
          /\ insertions[k].position = 0
          /\ PauseRef \in Range(base_order)
          /\ \E e \in Range(base_order) \cap Refs : e \notin selected_components
          /\ result[1] = insertions[k].ref

\* The nodes the last merge inserted: in ideal_order, not in base_order.
Inserted == Range(ideal_order) \ Range(base_order)

\* C27: in the list _merge_orders returns, every newly inserted node x (in
\* ideal_order, not in base_order) comes after every node whose ideal_order
\* position is smaller than x's; hence the newly inserted nodes appear in
\* the same relative order as in ideal_order.
C27_PredecessorsRespected ==
    Merged =>
        /\ \A x \in Inserted :
              \A p \in Range(ideal_order) :
                  Index(ideal_order, p) < Index(ideal_order, x)
                  => \A i, j \in DOMAIN result : (result[i] = p /\ result[j] = x) => i < j
        /\ SelectSeq(result, LAMBDA e : e \in Inserted)
               = SelectSeq(ideal_order, LAMBDA e : e \in Inserted)

\* A merge of a new node into a base order that places two working nodes
\* against ideal_order, the new node between them in ideal_order.
C27_Witness ==
    /\ Merged
    /\ Len(insertions) >= 1
    /\ ~BaseFollowsIdeal
    /\ \E x \in Inserted :
          \E p, q \in Range(base_order) \cap Range(ideal_order) :
              /\ Index(ideal_order, p) < Index(ideal_order, x)
              /\ Index(ideal_order, x) < Index(ideal_order, q)
              /\ Index(result, q) < Index(result, p)

\* C28: for every selected set, rule set and base_order (absent or present),
\* with R = generate(selected, base_order), generate(selected, R) returns a
\* list equal to R; re-running the generator on its own output inserts and
\* moves nothing.
C28_Idempotent ==
    Returned =>
        \A it \in Permutations_(selected_components) :
            \A again \in {generate(rule_manager, selected_components, result, it)} :
                /\ again.pc = "returned"
                /\ again.result = result
                /\ again.insertions = <<>>

\* A first call that inserted two nodes into a base order with a pause
\* token, run again on the list it returned.
C28_Witness ==
    /\ Returned
    /\ Len(insertions) >= 2
    /\ PauseRef \in Range(base_order)
    /\ result # base_order
    /\ result # ideal_order
    /\ generate(rule_manager, selected_components, result,
                SetToList(selected_components, result)).result = result

Done == {t \in Threads : threads[t].pc = "done"}

\* The threads that have written the counter.
Wrote == {t \in Threads : threads[t].pc \in {"stored", "done"}}

\* No construction completed or under way has met another one: the
\* constructions were serialized.
Serialized == \A t \in Threads : ~threads[t].overlapped

\* C22: PauseEntry construction is not atomic (the counter is incremented,
\* then read again to format the id): the pause ids of the constructions
\* completed are pairwise distinct, and the counter is their number, when
\* the constructions are serialized; without that the counter, and the
\* number every id names, are only between 1 and the number of
\* constructions that wrote the counter (C22_Witness: two concurrent
\* constructions with the same id and a lost increment).
C22_DistinctWhenSerialized ==
    /\ Serialized =>
          /\ \A t, u \in Done : t # u => threads[t].pause_id # threads[u].pause_id
          /\ Constructing = {} => _counter = Cardinality(Done)
    /\ \A t \in Done :
          \E n \in 1..Cardinality(Wrote) : threads[t].pause_id = FormatPauseId(n)
    /\ Wrote # {} => _counter \in 1..Cardinality(Wrote)

\* Two threads constructed concurrently, no third one ran: both entries
\* have the same pause_id and one increment is lost.
C22_Witness ==
    /\ Cardinality(Done) = 2
    /\ \A t \in Threads \ Done : threads[t].pc = "idle"
    /\ \A t, u \in Done : threads[t].pause_id = threads[u].pause_id
    /\ _counter = 1

\* ---------------------------------------- properties of the sort with cycles
\* The node was emitted by the Kahn phase of the last sort.
EmittedByKahn(u) == \E i \in 1..resolved : ideal_order[i] = u

\* C26: for every graph, cyclic or not, and every edge u -> v in which u was
\* emitted during the Kahn phase (before the fallback), u precedes v in the
\* list _topological_sort returns.
C26_ResolvedEdgesHold ==
    (Returned /\ components_to_order # {})
    => \A e \in GraphEdges :
          EmittedByKahn(e[1])
          => /\ e[2] \in Range(ideal_order)
             /\ Index(ideal_order, e[1]) < Index(ideal_order, e[2])

\* A cyclic graph with an edge from a node of the Kahn phase into a node the
\* fallback appended, which is smaller in (mod_id, comp_key) order.
C26_Witness ==
    /\ Returned /\ warned
    /\ \E e \in GraphEdges :
          /\ EmittedByKahn(e[1])
          /\ ~EmittedByKahn(e[2])
          /\ KeyLess(e[2], e[1])

\* ------------------------------------------------------ GameModels properties
\* C23: get_install_steps(include_downloads=False) returns the sequence's
\* order with exactly the download-only steps removed (install and
\* annotation steps kept, in their original relative order);
\* get_install_steps(True) returns the full order unchanged.
C23_InstallSteps ==
    game_call = "get_install_steps" =>
        /\ game_result.raised = "None"
        /\ game_input.include_downloads => game_result.steps = game_input.sequence.order
        /\ ~game_input.include_downloads =>
              game_result.steps
                  = SelectSeq(game_input.sequence.order, LAMBDA e : ~is_download_only(e))

\* C24: get_folder_keys returns unique folder keys: the tuple holds no key
\* twice, for every GameDefinition including one whose sequences reference
\* the same game; each key is the sequence's game reference, or the
\* definition id when the reference is empty.
C24_FolderKeysUnique ==
    game_call = "get_folder_keys" =>
        /\ \A i, j \in DOMAIN game_result.keys :
              i # j => game_result.keys[i] # game_result.keys[j]
        /\ \A k \in Range(game_result.keys) :
              \E i \in DOMAIN game_input.definition.sequences :
                  k = IF game_input.definition.sequences[i].game # ""
                      THEN game_input.definition.sequences[i].game
                      ELSE game_input.definition.id

\* C25: for a GameSequence built by from_dict from configuration d,
\* is_mod_allowed(m) is true exactly when m is not in d's blocked_mods and
\* either d gives no allowed_mods whitelist or m is in d's allowed_mods; a
\* blocked mod is rejected even if whitelisted, and a whitelist that is
\* present restricts the allowed mods to its members.
C25_ModFiltering ==
    game_call = "is_mod_allowed" =>
        /\ game_result.raised = "None"
        /\ game_result.allowed
              <=> /\ game_input.mod_id \notin Range(game_input.config.blocked_mods.items)
                  /\ \/ game_input.config.allowed_mods.none
                     \/ game_input.mod_id \in Range(game_input.config.allowed_mods.items)

\* C30: for every InstallStep s that passes construction validation (any
\* step type, any mod, comp and text fields), InstallStep.from_dict(s.to_dict())
\* equals s.
C30_StepRoundTrip ==
    game_call = "from_dict(to_dict)" =>
        /\ game_result.raised = "None"
        /\ game_result.step = game_input.step

====
